---- MODULE Spec2Model ----
(***************************************************************************)
(* State-machine model of the Tidal client library (tidal-rs) and of the   *)
(* tidal-dl command line tool.                                             *)
(*                                                                         *)
(*   Spec        session bootstrap of tidal-dl: get_client, authenticate,  *)
(*               AuthSession::poll_for_token, AuthSession::refresh_token,  *)
(*               TidalClient::get_session, load/save_credentials           *)
(*   SpecStream  stream acquisition: TidalClient::parse_stream_info,       *)
(*               decrypt_key_id, StreamDecryptor,                          *)
(*               TidalClient::get_stream_bytes                             *)
(*   SpecRetry   HTTP client core: TidalClient::get_with_retry, get_once,  *)
(*               post                                                      *)
(*   SpecDownload  the downloads of tidal-dl: main, download_track,        *)
(*               download_album, download_playlist                         *)
(*   SpecLink    parse_tidal_link                                          *)
(*   SpecNetFair the HTTP clients of the library and their request timeout,*)
(*               with the timers of the runtime running                    *)
(*   SpecMpd     parse_mpd                                                 *)
(*   SpecCredits TidalClient::get_all_album_track_credits                  *)
(*   SpecEmbed   embed_metadata of tidal-dl                                *)
(*   SpecLyrics  SyncedLyrics::parse, SyncedLyrics::line_index_at,         *)
(*               LyricsDisplay                                             *)
(***************************************************************************)
EXTENDS Integers, Sequences, FiniteSets, TLC

VARIABLES
    \* ---- session bootstrap (tidal-dl/src/main.rs, tidal-rs/src/core/auth.rs)
    pc,              \* position of the get_client task
    clock,           \* wall clock, seconds
    cred_file,       \* contents of credentials.json
    file_at_start,   \* contents of credentials.json when the run began
    creds,           \* get_client: the loaded StoredCredentials
    token,           \* the TokenResponse obtained in this run
    client,          \* the TidalClient built in this run
    interval,        \* DeviceAuthResponse.interval
    result,          \* what get_client returned
    poll_start,      \* clock when poll_for_token was entered
    poll_times,      \* clock at each POST of poll_for_token
    poll_responses,  \* the answer to each POST of poll_for_token
    poll_result,     \* what poll_for_token returned
    refresh_posts,   \* number of POSTs made by refresh_token
    refresh_resp,    \* the answer to the POST of refresh_token
    refresh_result,  \* what refresh_token returned
    device_auths,    \* number of device authorizations started
    session_gets,    \* number of GET /sessions calls
    session_resp,    \* the answer to the last GET /sessions
    writes,          \* number of save_credentials calls that wrote the file
    \* ---- stream acquisition (tidal-rs/src/core/stream.rs, decrypt.rs)
    playback_info,   \* the PlaybackInfo handed to parse_stream_info
    cdn,             \* body served by the CDN for each url
    stream_info,     \* the StreamInfo built by parse_stream_info
    psi_result,      \* what parse_stream_info returned
    gsb,             \* the running / last get_stream_bytes call
    \* ---- HTTP client core (tidal-rs/src/core/api/client.rs)
    retry,           \* the running / last get_with_retry call
    post_st,         \* the last TidalClient::post call
    \* ---- downloads (tidal-dl/src/main.rs)
    dl,              \* the download of main: track, album or playlist
    trk,             \* the download_track call in progress / the last one
    files,           \* ids of the tracks whose audio file exists on disk
    tagged,          \* ids of the tracks whose file got its tags saved
    \* ---- link parsing (tidal-dl/src/main.rs)
    link_st,         \* the link given to parse_tidal_link and its result
    \* ---- HTTP calls and their timeout (client.rs, auth.rs, stream.rs)
    net,             \* one HTTP call of the library: its client, timer, result
    \* ---- MPD projection (tidal-rs/src/core/api/playback.rs)
    mpd_st,          \* the running / last parse_mpd call
    \* ---- album credits (tidal-rs/src/core/api/albums.rs)
    credits_st,      \* the running / last get_all_album_track_credits call
    \* ---- tagging (tidal-dl/src/main.rs)
    embed_st,        \* the running / last embed_metadata call
    \* ---- lyrics (tidal-rs/src/core/lyrics.rs)
    lyrics_st        \* SyncedLyrics::parse and the LyricsDisplay built on it

authVars == <<pc, clock, cred_file, file_at_start, creds, token, client,
              interval, result, poll_start, poll_times, poll_responses,
              poll_result, refresh_posts, refresh_resp, refresh_result,
              device_auths, session_gets, session_resp, writes>>

streamVars == <<playback_info, cdn, stream_info, psi_result, gsb>>

retryVars == <<retry, post_st>>

downloadVars == <<dl, trk, files, tagged>>

linkVars == <<link_st>>

netVars == <<net>>

mpdVars == <<mpd_st>>

creditsVars == <<credits_st>>

embedVars == <<embed_st>>

lyricsVars == <<lyrics_st>>

vars ==
    <<authVars, streamVars, retryVars, downloadVars, linkVars,
      netVars, mpdVars, creditsVars, embedVars, lyricsVars>>

\* what the actions of one component leave alone
notAuthVars ==
    <<streamVars, retryVars, downloadVars, linkVars, netVars,
      mpdVars, creditsVars, embedVars, lyricsVars>>

notStreamVars ==
    <<authVars, retryVars, downloadVars, linkVars, netVars,
      mpdVars, creditsVars, embedVars, lyricsVars>>

notRetryVars ==
    <<authVars, streamVars, downloadVars, linkVars, netVars,
      mpdVars, creditsVars, embedVars, lyricsVars>>

notDownloadVars ==
    <<authVars, streamVars, retryVars, linkVars, netVars,
      mpdVars, creditsVars, embedVars, lyricsVars>>

notLinkVars ==
    <<authVars, streamVars, retryVars, downloadVars, netVars,
      mpdVars, creditsVars, embedVars, lyricsVars>>

notNetVars ==
    <<authVars, streamVars, retryVars, downloadVars, linkVars,
      mpdVars, creditsVars, embedVars, lyricsVars>>

notMpdVars ==
    <<authVars, streamVars, retryVars, downloadVars, linkVars,
      netVars, creditsVars, embedVars, lyricsVars>>

notCreditsVars ==
    <<authVars, streamVars, retryVars, downloadVars, linkVars,
      netVars, mpdVars, embedVars, lyricsVars>>

notEmbedVars ==
    <<authVars, streamVars, retryVars, downloadVars, linkVars,
      netVars, mpdVars, creditsVars, lyricsVars>>

notLyricsVars ==
    <<authVars, streamVars, retryVars, downloadVars, linkVars,
      netVars, mpdVars, creditsVars, embedVars>>

----------------------------------------------------------------------------
(* Option and Result values                                                *)

None == [some |-> FALSE]

Some(x) == [some |-> TRUE, v |-> x]

Ok(x) == [ok |-> TRUE, val |-> x]

\* kind is the TidalError variant; "Message" is a bare string boxed into
\* Box<dyn Error> (no TidalError variant at all)
Err(kind, msg) == [ok |-> FALSE, kind |-> kind, msg |-> msg]

NoResult == [pending |-> TRUE]

----------------------------------------------------------------------------
(* Bounds                                                                  *)

MaxPolls == 3

MaxSegs == 2

MaxSegLen == 2

MaxCalls == 2

MaxRetriesCfg == 3

MaxPages == 2

MaxTimeoutCfg == 3

MaxS == 2

MaxRepeat == 2

MaxCreditRequests == 3

MaxPageItems == 2

MaxTotal == 3

MaxCredits == 2

MaxLines == 3

MaxParagraphs == 2

----------------------------------------------------------------------------
(* Session bootstrap: inputs                                               *)

Now0 == 1000

RefreshMargin == 300

SlowDownDelay == 5

Intervals == {2, 3}

CountryCodes == {"US", "DE"}

\* credentials.json at the start of a run
AbsentFile == [tag |-> "absent"]

CorruptFile == [tag |-> "corrupt"]

StoredCredentials(at, rt, exp, cc) ==
    [tag |-> "creds", access_token |-> at, refresh_token |-> rt,
     expires_at |-> exp, country_code |-> cc]

InitialFiles ==
    {AbsentFile, CorruptFile} \cup
    { StoredCredentials("a1", rt, exp, cc) :
        rt \in {"r1"},
        exp \in {Now0 + RefreshMargin - 1, Now0 + RefreshMargin,
                 Now0 + RefreshMargin + 1},
        cc \in CountryCodes }

\* bodies a token endpoint can send
TokenBodies ==
    { [json |-> "token", access_token |-> "a2", refresh_token |-> rt,
       expires_in |-> 600] : rt \in {None, Some(""), Some("r2")} }

ErrorCodes == {"authorization_pending", "slow_down", "expired_token",
               "access_denied", "invalid_grant"}

ErrorBody(e, d) == [json |-> "error", error |-> e, error_description |-> d]

ErrorBodies ==
    { ErrorBody(e, None) : e \in ErrorCodes } \cup
    { ErrorBody("invalid_grant", Some("why")) }

GarbageBody == [json |-> "garbage"]

Bodies == TokenBodies \cup ErrorBodies \cup {GarbageBody}

\* an HTTP exchange either fails at transport level or has a status and body
TransportFailure == [transport |-> FALSE]

HttpResponse(status, body) == [transport |-> TRUE, status |-> status, body |-> body]

TokenEndpointResponses ==
    {TransportFailure} \cup
    { HttpResponse(s, b) : s \in {200, 400}, b \in Bodies }

\* reqwest StatusCode::is_success
is_success(status) == status >= 200 /\ status < 300

SessionInfo(uid, cc) == [user_id |-> uid, country_code |-> cc]

\* outcomes of TidalClient::get (GET /sessions)
SessionResponses ==
    { Ok(SessionInfo(7, cc)) : cc \in CountryCodes } \cup
    { Err(k, "") : k \in {"Network", "Api", "Json"} }

\* outcomes of the device_authorization POST
DeviceAuthResponses ==
    {TransportFailure} \cup
    { HttpResponse(200, [json |-> "device", interval |-> i]) : i \in Intervals } \cup
    { HttpResponse(s, GarbageBody) : s \in {200, 400} }

----------------------------------------------------------------------------
(* AuthSession (tidal-rs/src/core/auth.rs)                                  *)

TokenResponse(at, rt, exp) ==
    [access_token |-> at, refresh_token |-> rt, expires_in |-> exp]

\* serde_json::from_str::<TokenResponse>: refresh_token is #[serde(default)]
parse_TokenResponse(body) ==
    IF body.json = "token"
    THEN Ok(TokenResponse(body.access_token,
                          IF body.refresh_token.some THEN body.refresh_token.v ELSE "",
                          body.expires_in))
    ELSE Err("Json", "")

\* serde_json::from_str::<TokenErrorResponse>
parse_TokenErrorResponse(body) ==
    IF body.json = "error"
    THEN Ok([error |-> body.error, error_description |-> body.error_description])
    ELSE Err("Json", "")

\* format!("{:?}", Option<String>)
DebugOption(o) == IF o.some THEN "Some(\"" \o o.v \o "\")" ELSE "None"

\* mutants of poll_error_dispatch: an arm of the match goes wrong
poll_error_dispatch_pending_slows(err) ==
    CASE err.error \in {"authorization_pending", "slow_down"} -> [step |-> "slow_down"]
      [] err.error = "expired_token" ->
            [step |-> "return", result |-> Err("Auth", "code expired")]
      [] err.error = "access_denied" ->
            [step |-> "return", result |-> Err("Auth", "access denied")]
      [] OTHER ->
            [step |-> "return",
             result |-> Err("Auth", err.error \o ": " \o DebugOption(err.error_description))]

poll_error_dispatch_denied_continues(err) ==
    CASE err.error \in {"authorization_pending", "access_denied"} -> [step |-> "continue"]
      [] err.error = "slow_down" -> [step |-> "slow_down"]
      [] err.error = "expired_token" ->
            [step |-> "return", result |-> Err("Auth", "code expired")]
      [] OTHER ->
            [step |-> "return",
             result |-> Err("Auth", err.error \o ": " \o DebugOption(err.error_description))]

poll_error_dispatch_slow_continues(err) ==
    CASE err.error \in {"authorization_pending", "slow_down"} -> [step |-> "continue"]
      [] err.error = "expired_token" ->
            [step |-> "return", result |-> Err("Auth", "code expired")]
      [] err.error = "access_denied" ->
            [step |-> "return", result |-> Err("Auth", "access denied")]
      [] OTHER ->
            [step |-> "return",
             result |-> Err("Auth", err.error \o ": " \o DebugOption(err.error_description))]

\* the match on err.error in poll_for_token; step says how the loop goes on
poll_error_dispatch(err) ==
    CASE err.error = "authorization_pending" -> [step |-> "continue"]
      [] err.error = "slow_down" -> [step |-> "slow_down"]
      [] err.error = "expired_token" ->
            [step |-> "return", result |-> Err("Auth", "code expired")]
      [] err.error = "access_denied" ->
            [step |-> "return", result |-> Err("Auth", "access denied")]
      [] OTHER ->
            [step |-> "return",
             result |-> Err("Auth", err.error \o ": " \o DebugOption(err.error_description))]

\* mutant of poll_iteration: a non-2xx body that is no error object ends the
\* polling
poll_iteration_garbage_returns(resp) ==
    IF ~resp.transport
    THEN [step |-> "return", result |-> Err("Network", "")]
    ELSE IF is_success(resp.status)
    THEN [step |-> "return", result |-> parse_TokenResponse(resp.body)]
    ELSE IF parse_TokenErrorResponse(resp.body).ok
    THEN poll_error_dispatch(parse_TokenErrorResponse(resp.body).val)
    ELSE [step |-> "return", result |-> Err("Json", "")]

\* one iteration of the loop of poll_for_token, after the sleep
poll_iteration(resp) ==
    IF ~resp.transport
    THEN [step |-> "return", result |-> Err("Network", "")]
    ELSE IF is_success(resp.status)
    THEN [step |-> "return", result |-> parse_TokenResponse(resp.body)]
    ELSE IF parse_TokenErrorResponse(resp.body).ok
    THEN poll_error_dispatch(parse_TokenErrorResponse(resp.body).val)
    ELSE [step |-> "continue"]

\* mutant of refresh_token: the status is not looked at
refresh_token_ignores_status(resp) ==
    IF ~resp.transport
    THEN Err("Network", "")
    ELSE parse_TokenResponse(resp.body)

\* AuthSession::refresh_token, given the answer to its one POST
refresh_token(resp) ==
    IF ~resp.transport
    THEN Err("Network", "")
    ELSE IF ~is_success(resp.status)
    THEN Err("Auth", "refresh failed")
    ELSE parse_TokenResponse(resp.body)

\* AuthSession::start_device_auth, given the answer to its POST
start_device_auth(resp) ==
    IF ~resp.transport
    THEN Err("Network", "")
    ELSE IF ~is_success(resp.status)
    THEN Err("Auth", "device auth failed")
    ELSE IF resp.body.json = "device"
    THEN Ok([interval |-> resp.body.interval])
    ELSE Err("Json", "")

----------------------------------------------------------------------------
(* tidal-dl session bootstrap (tidal-dl/src/main.rs)                        *)

\* load_credentials: Ok(None) when the file does not exist
load_credentials(file) ==
    CASE file.tag = "absent" -> Ok(None)
      [] file.tag = "corrupt" -> Err("Json", "")
      [] OTHER -> Ok(Some(file))

\* mutant of needs_refresh: >= for >
needs_refresh_at_margin(now, expires_at) == now + RefreshMargin >= expires_at

\* the test `current_timestamp() + 300 > creds.expires_at` of get_client
needs_refresh(now, expires_at) == now + RefreshMargin > expires_at

\* TidalClient::new
TidalClient(at, rt, cc) ==
    [access_token |-> at, refresh_token |-> rt, country_code |-> cc, user_id |-> None]

\* mutant of get_session: a failed GET is swallowed
get_session_swallows(cl, resp) ==
    IF resp.ok
    THEN [client |-> [cl EXCEPT !.country_code = resp.val.country_code,
                                !.user_id = Some(resp.val.user_id)],
          result |-> resp]
    ELSE [client |-> cl, result |-> Ok([user_id |-> 0, country_code |-> cl.country_code])]

\* TidalClient::get_session, given the outcome of its GET /sessions:
\* the client as it is left, and the value returned
get_session(cl, resp) ==
    IF resp.ok
    THEN [client |-> [cl EXCEPT !.country_code = resp.val.country_code,
                                !.user_id = Some(resp.val.user_id)],
          result |-> resp]
    ELSE [client |-> cl, result |-> resp]

\* the StoredCredentials that authenticate saves
authenticate_creds(tok, session, now) ==
    StoredCredentials(tok.access_token, tok.refresh_token,
                      now + tok.expires_in, session.country_code)

\* the StoredCredentials that get_client saves after a refresh
refreshed_creds(old, tok, session, now) ==
    StoredCredentials(tok.access_token, tok.refresh_token,
                      now + tok.expires_in, old.country_code)

\* get_client up to its first await: load_credentials and the expiry test
get_client ==
    /\ pc = "get_client"
    /\ LET loaded == load_credentials(cred_file) IN
        IF ~loaded.ok
        THEN /\ result' = loaded
             /\ pc' = "done"
             /\ UNCHANGED <<creds, client>>
        ELSE IF ~loaded.val.some
        THEN /\ pc' = "start_device_auth"
             /\ UNCHANGED <<creds, client, result>>
        ELSE /\ creds' = loaded.val
             /\ IF needs_refresh(clock, loaded.val.v.expires_at)
                THEN /\ pc' = "refresh_token"
                     /\ UNCHANGED client
                ELSE /\ pc' = "valid_get_session"
                     /\ client' = Some(TidalClient(loaded.val.v.access_token,
                                                   loaded.val.v.refresh_token,
                                                   loaded.val.v.country_code))
             /\ UNCHANGED result
    /\ UNCHANGED <<clock, cred_file, file_at_start, token, interval, poll_start,
                   poll_times, poll_responses, poll_result, refresh_posts,
                   refresh_resp, refresh_result, device_auths, session_gets,
                   session_resp, writes>>
    /\ UNCHANGED notAuthVars

\* get_client, stored token still valid: client.get_session().await?
get_client_valid ==
    /\ pc = "valid_get_session"
    /\ \E resp \in SessionResponses :
        LET s == get_session(client.v, resp) IN
        /\ session_gets' = session_gets + 1
        /\ session_resp' = Some(resp)
        /\ client' = Some(s.client)
        /\ result' = IF s.result.ok THEN Ok(s.client) ELSE s.result
    /\ pc' = "done"
    /\ UNCHANGED <<clock, cred_file, file_at_start, creds, token, interval,
                   poll_start, poll_times, poll_responses, poll_result,
                   refresh_posts, refresh_resp, refresh_result, device_auths,
                   writes>>
    /\ UNCHANGED notAuthVars

\* get_client, token expired: auth.refresh_token(..).await and the match on it
get_client_refresh ==
    /\ pc = "refresh_token"
    /\ \E resp \in TokenEndpointResponses :
        LET r == refresh_token(resp) IN
        /\ refresh_posts' = refresh_posts + 1
        /\ refresh_resp' = Some(resp)
        /\ refresh_result' = r
        /\ IF r.ok
           THEN /\ token' = Some(r.val)
                /\ client' = Some(TidalClient(r.val.access_token, r.val.refresh_token,
                                              creds.v.country_code))
                /\ pc' = "refresh_get_session"
           ELSE /\ pc' = "start_device_auth"
                /\ UNCHANGED <<token, client>>
    /\ UNCHANGED <<clock, cred_file, file_at_start, creds, interval, result,
                   poll_start, poll_times, poll_responses, poll_result,
                   device_auths, session_gets, session_resp, writes>>
    /\ UNCHANGED notAuthVars

\* get_client after a successful refresh: get_session().await?, then
\* save_credentials(&new_creds)
get_client_refreshed ==
    /\ pc = "refresh_get_session"
    /\ \E resp \in SessionResponses :
        LET s == get_session(client.v, resp) IN
        /\ session_gets' = session_gets + 1
        /\ session_resp' = Some(resp)
        /\ client' = Some(s.client)
        /\ IF s.result.ok
           THEN /\ cred_file' = refreshed_creds(creds.v, token.v, s.result.val, clock)
                /\ writes' = writes + 1
                /\ result' = Ok(s.client)
           ELSE /\ result' = s.result
                /\ UNCHANGED <<cred_file, writes>>
    /\ pc' = "done"
    /\ UNCHANGED <<clock, file_at_start, creds, token, interval, poll_start,
                   poll_times, poll_responses, poll_result, refresh_posts,
                   refresh_resp, refresh_result, device_auths>>
    /\ UNCHANGED notAuthVars

\* authenticate: auth.start_device_auth().await?
authenticate ==
    /\ pc = "start_device_auth"
    /\ \E resp \in DeviceAuthResponses :
        LET d == start_device_auth(resp) IN
        /\ device_auths' = device_auths + 1
        /\ IF d.ok
           THEN /\ interval' = d.val.interval
                /\ poll_start' = clock
                /\ pc' = "poll_sleep"
                /\ UNCHANGED result
           ELSE /\ result' = d
                /\ pc' = "done"
                /\ UNCHANGED <<interval, poll_start>>
    /\ UNCHANGED <<clock, cred_file, file_at_start, creds, token, client,
                   poll_times, poll_responses, poll_result, refresh_posts,
                   refresh_resp, refresh_result, session_gets, session_resp,
                   writes>>
    /\ UNCHANGED notAuthVars

\* poll_for_token: tokio::time::sleep(interval) at the head of the loop
poll_for_token_sleep ==
    /\ pc = "poll_sleep"
    /\ clock' = clock + interval
    /\ pc' = "poll_post"
    /\ UNCHANGED <<cred_file, file_at_start, creds, token, client, interval,
                   result, poll_start, poll_times, poll_responses, poll_result,
                   refresh_posts, refresh_resp, refresh_result, device_auths,
                   session_gets, session_resp, writes>>
    /\ UNCHANGED notAuthVars

\* poll_for_token: the POST and the dispatch on its answer; a return of
\* poll_for_token is followed by the `?` and TidalClient::new of authenticate
poll_for_token_post ==
    /\ pc = "poll_post"
    /\ \E resp \in TokenEndpointResponses :
        LET it == poll_iteration(resp) IN
        /\ Len(poll_times) + 1 < MaxPolls \/ it.step = "return"
        /\ poll_times' = Append(poll_times, clock)
        /\ poll_responses' = Append(poll_responses, resp)
        /\ CASE it.step = "continue" ->
                    /\ pc' = "poll_sleep"
                    /\ UNCHANGED <<poll_result, token, client, result>>
             [] it.step = "slow_down" ->
                    /\ pc' = "poll_slow_down"
                    /\ UNCHANGED <<poll_result, token, client, result>>
             [] it.step = "return" ->
                    /\ poll_result' = it.result
                    /\ IF it.result.ok
                       THEN /\ token' = Some(it.result.val)
                            /\ client' = Some(TidalClient(it.result.val.access_token,
                                                          it.result.val.refresh_token,
                                                          "US"))
                            /\ pc' = "auth_get_session"
                            /\ UNCHANGED result
                       ELSE /\ result' = it.result
                            /\ pc' = "done"
                            /\ UNCHANGED <<token, client>>
    /\ UNCHANGED <<clock, cred_file, file_at_start, creds, interval,
                   poll_start, refresh_posts, refresh_resp, refresh_result,
                   device_auths, session_gets, session_resp, writes>>
    /\ UNCHANGED notAuthVars

\* poll_for_token: the extra sleep of the "slow_down" arm
poll_for_token_slow_down ==
    /\ pc = "poll_slow_down"
    /\ clock' = clock + SlowDownDelay
    /\ pc' = "poll_sleep"
    /\ UNCHANGED <<cred_file, file_at_start, creds, token, client, interval,
                   result, poll_start, poll_times, poll_responses, poll_result,
                   refresh_posts, refresh_resp, refresh_result, device_auths,
                   session_gets, session_resp, writes>>
    /\ UNCHANGED notAuthVars

\* authenticate after the token: get_session().await?, save_credentials
authenticate_session ==
    /\ pc = "auth_get_session"
    /\ \E resp \in SessionResponses :
        LET s == get_session(client.v, resp) IN
        /\ session_gets' = session_gets + 1
        /\ session_resp' = Some(resp)
        /\ client' = Some(s.client)
        /\ IF s.result.ok
           THEN /\ cred_file' = authenticate_creds(token.v, s.result.val, clock)
                /\ writes' = writes + 1
                /\ result' = Ok(s.client)
           ELSE /\ result' = s.result
                /\ UNCHANGED <<cred_file, writes>>
    /\ pc' = "done"
    /\ UNCHANGED <<clock, file_at_start, creds, token, interval, poll_start,
                   poll_times, poll_responses, poll_result, refresh_posts,
                   refresh_resp, refresh_result, device_auths>>
    /\ UNCHANGED notAuthVars

AuthInit ==
    /\ pc = "get_client"
    /\ clock = Now0
    /\ cred_file \in InitialFiles
    /\ file_at_start = cred_file
    /\ creds = None
    /\ token = None
    /\ client = None
    /\ interval = 0
    /\ result = NoResult
    /\ poll_start = 0
    /\ poll_times = <<>>
    /\ poll_responses = <<>>
    /\ poll_result = NoResult
    /\ refresh_posts = 0
    /\ refresh_resp = None
    /\ refresh_result = NoResult
    /\ device_auths = 0
    /\ session_gets = 0
    /\ session_resp = None
    /\ writes = 0

Next ==
    \/ get_client
    \/ get_client_valid
    \/ get_client_refresh
    \/ get_client_refreshed
    \/ authenticate
    \/ poll_for_token_sleep
    \/ poll_for_token_post
    \/ poll_for_token_slow_down
    \/ authenticate_session

----------------------------------------------------------------------------
(* Crypto core (tidal-rs/src/core/decrypt.rs)                               *)

\* a thread that panicked returns nothing; kept in the shape of a Result
Panic(msg) == [ok |-> FALSE, kind |-> "Panic", msg |-> msg]

IvLen == 16

BlockLen == 16

KeyLen == 16

NonceEnd == 24

\* key ids: a base64 string is described by whether it decodes, by the
\* length of the decoded blob and by the key material its plaintext holds
KeyIds ==
    { [b64 |-> FALSE, len |-> 0, key |-> 0] } \cup
    { [b64 |-> TRUE, len |-> l, key |-> 1] : l \in {8, 16, 24, 32, 40, 48, 64} } \cup
    { [b64 |-> TRUE, len |-> 48, key |-> 2] }

\* decrypt_key_id: slicing out of range panics, a ciphertext that is not a
\* whole number of blocks makes decrypt_padded_mut::<NoPadding> fail
decrypt_key_id(key_id) ==
    IF ~key_id.b64 THEN Err("Decode", "")
    ELSE IF key_id.len < IvLen THEN Panic("range end index 16 out of range")
    ELSE IF (key_id.len - IvLen) % BlockLen # 0
    THEN Err("Encryption", "Decryption failed")
    ELSE IF key_id.len - IvLen < KeyLen THEN Panic("range end index 16 out of range")
    ELSE IF key_id.len - IvLen < NonceEnd THEN Panic("range end index 24 out of range")
    ELSE Ok([key |-> key_id.key])

RECURSIVE XorBits(_, _, _)
XorBits(a, b, n) ==
    IF n = 0 THEN 0
    ELSE (((a % 2) + (b % 2)) % 2) + 2 * XorBits(a \div 2, b \div 2, n - 1)

\* bytewise exclusive or
Xor(a, b) == XorBits(a, b, 8)

\* byte number pos of the AES-128-CTR keystream of a key: AES itself is not
\* modelled, only that the keystream is a fixed byte sequence per key
Keystream(key, pos) == (key * 89 + pos * 37 + (pos \div BlockLen) * 11 + 5) % 256

\* StreamDecryptor::new: keystream position 0
StreamDecryptor_new(dec_key) == [key |-> dec_key.key, pos |-> 0]

\* mutant of StreamDecryptor::decrypt: the cipher is applied to a copy and
\* keeps its position
StreamDecryptor_decrypt_keeps_position(dec, data) ==
    [dec |-> dec,
     data |-> [i \in 1..Len(data) |-> Xor(data[i], Keystream(dec.key, dec.pos + i - 1))]]

\* mutant of StreamDecryptor::decrypt: the keystream restarts on every call
StreamDecryptor_decrypt_restarts(dec, data) ==
    [dec |-> dec,
     data |-> [i \in 1..Len(data) |-> Xor(data[i], Keystream(dec.key, i - 1))]]

\* StreamDecryptor::decrypt: apply_keystream over data, in place; yields the
\* advanced decryptor and the bytes
StreamDecryptor_decrypt(dec, data) ==
    [dec |-> [dec EXCEPT !.pos = dec.pos + Len(data)],
     data |-> [i \in 1..Len(data) |-> Xor(data[i], Keystream(dec.key, dec.pos + i - 1))]]

----------------------------------------------------------------------------
(* Stream acquisition (tidal-rs/src/core/stream.rs, api/playback.rs)        *)

Urls == [n \in 1..MaxSegs |-> n]

UrlLists == { SubSeq(Urls, 1, n) : n \in 0..MaxSegs }

Bytes == {0, 255}

SegmentBodies == UNION { [1..n -> Bytes] : n \in 0..MaxSegLen }

MimeBts == "application/vnd.tidal.bts"

MimeDash == "application/dash+xml"

\* what the base64 manifest string holds: a BTS JSON document, an MPD
\* (given by the url list parse_mpd projects from it) or neither
BtsPayloads ==
    { [fmt |-> "bts", encryption_type |-> e, key_id |-> k, urls |-> u] :
        e \in {"OLD_AES", "NONE", "AES_GCM"},
        k \in {None} \cup { Some(kid) : kid \in KeyIds },
        u \in UrlLists }

MpdPayloads == { [fmt |-> "mpd", urls |-> u] : u \in {<<>>, Urls} }

GarbagePayload == [fmt |-> "garbage"]

PlaybackInfos ==
    { [manifest_mime_type |-> m, manifest |-> p] :
        m \in {MimeBts, MimeDash, "text/plain"},
        p \in BtsPayloads \cup MpdPayloads \cup {GarbagePayload} }

\* TidalClient::decode_bts_manifest: base64, UTF-8, serde_json
decode_bts_manifest(pi) ==
    CASE pi.manifest.fmt = "bts" -> Ok(pi.manifest)
      [] pi.manifest.fmt = "mpd" -> Err("Json", "")
      [] OTHER -> Err("Decode", "")

\* TidalClient::decode_dash_manifest: base64, UTF-8, parse_mpd
decode_dash_manifest(pi) ==
    CASE pi.manifest.fmt = "mpd" /\ pi.manifest.urls # <<>> ->
            Ok([urls |-> pi.manifest.urls])
      [] pi.manifest.fmt = "garbage" -> Err("Decode", "")
      [] OTHER -> Err("Manifest", "No URLs found in DASH manifest")

StreamInfo(urls, encryption) == [urls |-> urls, encryption |-> encryption]

\* the match on manifest.encryption_type: Ok(Option<StreamDecryptor>)
encryption_dispatch(manifest) ==
    CASE manifest.encryption_type = "OLD_AES" ->
            IF ~manifest.key_id.some THEN Err("Message", "Missing keyId")
            ELSE IF ~decrypt_key_id(manifest.key_id.v).ok
            THEN decrypt_key_id(manifest.key_id.v)
            ELSE Ok(Some(StreamDecryptor_new(decrypt_key_id(manifest.key_id.v).val)))
      [] manifest.encryption_type = "NONE" -> Ok(None)
      [] OTHER -> Err("Message", "Unknown encryption: " \o manifest.encryption_type)

\* TidalClient::parse_stream_info
parse_stream_info(pi) ==
    CASE pi.manifest_mime_type = MimeBts ->
            IF ~decode_bts_manifest(pi).ok THEN decode_bts_manifest(pi)
            ELSE IF ~encryption_dispatch(decode_bts_manifest(pi).val).ok
            THEN encryption_dispatch(decode_bts_manifest(pi).val)
            ELSE Ok(StreamInfo(decode_bts_manifest(pi).val.urls,
                               encryption_dispatch(decode_bts_manifest(pi).val).val))
      [] pi.manifest_mime_type = MimeDash ->
            IF ~decode_dash_manifest(pi).ok THEN decode_dash_manifest(pi)
            ELSE Ok(StreamInfo(decode_dash_manifest(pi).val.urls, None))
      [] OTHER -> Err("Message", "Unknown manifest type: " \o pi.manifest_mime_type)

\* get_stream_info after the playback info arrived: parse_stream_info
get_stream_info ==
    /\ psi_result = NoResult
    /\ psi_result' = parse_stream_info(playback_info.v)
    /\ stream_info' = IF parse_stream_info(playback_info.v).ok
                      THEN Some(parse_stream_info(playback_info.v).val)
                      ELSE None
    /\ UNCHANGED <<playback_info, cdn, gsb>>
    /\ UNCHANGED notStreamVars

\* get_stream_bytes is entered: `let mut data = Vec::new()`
get_stream_bytes ==
    /\ stream_info.some
    /\ gsb.pc = "idle"
    /\ gsb.calls < MaxCalls
    /\ gsb' = [pc |-> "loop", calls |-> gsb.calls + 1, i |-> 1, data |-> <<>>,
               fetched |-> <<>>, result |-> NoResult,
               encryption_at_call |-> stream_info.v.encryption,
               previous |-> gsb.result]
    /\ UNCHANGED <<playback_info, cdn, stream_info, psi_result>>
    /\ UNCHANGED notStreamVars

\* one turn of `for url in &stream_info.urls`: the GET, then decrypt and extend
get_stream_bytes_segment ==
    /\ gsb.pc = "loop"
    /\ gsb.i <= Len(stream_info.v.urls)
    /\ \E sent \in BOOLEAN :
        LET url == stream_info.v.urls[gsb.i]
            enc == stream_info.v.encryption
            out == IF enc.some THEN StreamDecryptor_decrypt(enc.v, cdn[url])
                   ELSE [dec |-> None, data |-> cdn[url]]
        IN  IF sent
            THEN /\ gsb' = [gsb EXCEPT !.i = gsb.i + 1,
                                       !.data = gsb.data \o out.data,
                                       !.fetched = Append(gsb.fetched, url)]
                 /\ stream_info' = IF enc.some
                                   THEN Some([stream_info.v EXCEPT !.encryption = Some(out.dec)])
                                   ELSE stream_info
            ELSE /\ gsb' = [gsb EXCEPT !.pc = "idle",
                                       !.fetched = Append(gsb.fetched, url),
                                       !.result = Err("Network", "")]
                 /\ UNCHANGED stream_info
    /\ UNCHANGED <<playback_info, cdn, psi_result>>
    /\ UNCHANGED notStreamVars

\* the loop is over: Ok(data)
get_stream_bytes_return ==
    /\ gsb.pc = "loop"
    /\ gsb.i > Len(stream_info.v.urls)
    /\ gsb' = [gsb EXCEPT !.pc = "idle", !.result = Ok(gsb.data)]
    /\ UNCHANGED <<playback_info, cdn, stream_info, psi_result>>
    /\ UNCHANGED notStreamVars

----------------------------------------------------------------------------
(* HTTP client core (tidal-rs/src/core/api/client.rs)                       *)

\* ClientConfig::default
DefaultMaxRetries == 3

DefaultRetryDelay == 500

\* message: text[..text.len().min(200)]
ApiMessageLimit == 200

\* configurations: the default one and ones set through with_retries
ClientConfigs ==
    { [max_retries |-> m, retry_delay |-> d] :
        m \in 0..MaxRetriesCfg, d \in {DefaultRetryDelay, 20} }

\* a body text is a sequence of UTF-8 bytes: 0 is a one-byte character,
\* 1 the first byte of a longer character, 2 a continuation byte
Ascii(n) == [i \in 1..n |-> 0]

TwoByteChar == <<1, 2>>

ThreeByteChar == <<1, 2, 2>>

BodyTexts ==
    { Ascii(n) : n \in {0, 3, ApiMessageLimit, ApiMessageLimit + 5} } \cup
    { Ascii(n) \o TwoByteChar \o Ascii(3) :
        n \in {1, ApiMessageLimit - 2, ApiMessageLimit - 1, ApiMessageLimit} } \cup
    { Ascii(n) \o ThreeByteChar :
        n \in {ApiMessageLimit - 3, ApiMessageLimit - 2, ApiMessageLimit - 1} }

\* what one HTTP exchange of the client core can come to
TransportError(cause) == [transport |-> FALSE, cause |-> cause]

ApiResponse(status, text, json) ==
    [transport |-> TRUE, status |-> status, text |-> text, json |-> json]

Exchanges ==
    { TransportError(c) : c \in {"connect", "timeout"} } \cup
    { ApiResponse(200, Ascii(3), j) : j \in {"value", "garbage"} } \cup
    { ApiResponse(s, t, "garbage") : s \in {404, 500}, t \in BodyTexts }

\* nothing is sent
NoExchange == [sent |-> FALSE]

\* TidalError::Api { status, message }
ApiError(status, message) ==
    [ok |-> FALSE, kind |-> "Api", status |-> status, msg |-> message]

\* str::is_char_boundary
is_char_boundary(text, index) ==
    \/ index = 0
    \/ index = Len(text)
    \/ index < Len(text) /\ text[index + 1] # 2

Min(a, b) == IF a <= b THEN a ELSE b

\* text[..text.len().min(200)].to_string(): slicing a str off a character
\* boundary panics
api_message(text) ==
    IF is_char_boundary(text, Min(Len(text), ApiMessageLimit))
    THEN Ok(SubSeq(text, 1, Min(Len(text), ApiMessageLimit)))
    ELSE Panic("byte index 200 is not a char boundary")

\* status and body of an answer, as get_once and post treat them
response_result(ex) ==
    IF ~is_success(ex.status)
    THEN IF api_message(ex.text).ok
         THEN ApiError(ex.status, api_message(ex.text).val)
         ELSE api_message(ex.text)
    ELSE IF ex.json = "value" THEN Ok("value") ELSE Err("Json", "")

\* TidalClient::get_once; headers() fails on an access token that is not a
\* valid header value, before anything is sent
get_once(token_ok, ex) ==
    IF ~token_ok THEN Err("Auth", "Invalid access token")
    ELSE IF ~ex.transport THEN Err("Network", ex.cause)
    ELSE response_result(ex)

\* TidalClient::post
post(token_ok, ex) ==
    IF ~token_ok THEN Err("Auth", "Invalid access token")
    ELSE IF ~ex.transport THEN Err("Network", ex.cause)
    ELSE response_result(ex)

\* mutant of retry_wait: constant backoff
retry_wait_constant(retry_delay, attempt) == retry_delay

\* self.config.retry_delay * attempt
retry_wait(retry_delay, attempt) == retry_delay * attempt

\* the test of get_with_retry on the result of an attempt
should_retry(res, attempt, max_retries) ==
    ~res.ok /\ res.kind = "Network" /\ attempt < max_retries

\* get_with_retry: tokio::time::sleep(retry_delay * attempt) before a retry
get_with_retry_sleep ==
    /\ retry.pc = "sleep"
    /\ retry' = [retry EXCEPT !.pc = "attempt",
                        !.waits = Append(retry.waits, retry_wait(retry.config.retry_delay, retry.attempt))]
    /\ UNCHANGED post_st
    /\ UNCHANGED notRetryVars

\* get_with_retry: one get_once and the match on its result; a panic ends
\* the task without a result being returned
get_with_retry_attempt ==
    /\ retry.pc = "attempt"
    /\ \E ex \in IF retry.token_ok THEN Exchanges ELSE {NoExchange} :
        LET res == get_once(retry.token_ok, ex)
            log == IF retry.token_ok THEN Append(retry.exchanges, ex)
                                     ELSE retry.exchanges
        IN
        IF should_retry(res, retry.attempt, retry.config.max_retries)
        THEN retry' = [retry EXCEPT !.pc = "sleep",
                                    !.attempt = retry.attempt + 1,
                                    !.exchanges = log,
                                    !.last_error = Some(res)]
        ELSE retry' = [retry EXCEPT !.pc = "done",
                                    !.exchanges = log,
                                    !.result = res]
    /\ UNCHANGED post_st
    /\ UNCHANGED notRetryVars

\* a call of TidalClient::post
post_call ==
    /\ ~post_st.called
    /\ \E ex \in IF post_st.token_ok THEN Exchanges ELSE {NoExchange} :
        post_st' = [called |-> TRUE, token_ok |-> post_st.token_ok,
                    exchange |-> IF post_st.token_ok THEN Some(ex) ELSE None,
                    result |-> post(post_st.token_ok, ex)]
    /\ UNCHANGED retry
    /\ UNCHANGED notRetryVars

RetryCall(cfg, token_ok) ==
    [pc |-> "attempt", attempt |-> 0, config |-> cfg, token_ok |-> token_ok,
     exchanges |-> <<>>, waits |-> <<>>, last_error |-> None, result |-> NoResult]

RetryIdle ==
    /\ retry = [RetryCall([max_retries |-> DefaultMaxRetries,
                        retry_delay |-> DefaultRetryDelay], TRUE)
                EXCEPT !.pc = "idle"]
    /\ post_st = [called |-> TRUE, token_ok |-> TRUE, exchange |-> None,
                  result |-> NoResult]

RetryInit ==
    /\ retry \in { RetryCall(cfg, t) : cfg \in ClientConfigs, t \in BOOLEAN }
    /\ post_st = [called |-> FALSE, token_ok |-> retry.token_ok, exchange |-> None,
                  result |-> NoResult]

----------------------------------------------------------------------------
(* Downloads (tidal-dl/src/main.rs)                                         *)

\* let limit = 100u32; get_album_tracks(album_id, 100, 0)
PageLimit == 100

\* the segments of the stream of a track
SegmentsPerTrack == 2

\* what the service and the disk have in store for a track: the step of
\* download_track that fails, if any.  get_stream_info fails with an error
\* (playback info refused, manifest not decodable) or panics (decrypt_key_id
\* on a short key id, get_once on a non-2xx body cut inside a character);
\* get_stream_bytes fails on the transport failure of its last segment.
Fates ==
    {"ok", "info_err", "info_panic", "segment_err", "write_err", "lyrics_err",
     "embed_err"}

Track(id, fate) == [id |-> id, fate |-> fate]

TrackId(page_no, i) == page_no * 1000 + i

\* a page of n items; bad gives the fate of the items that do not succeed
PageShape(n, bad) == [n |-> n, bad |-> bad]

FullPageShapes ==
    { PageShape(PageLimit, {}),
      PageShape(PageLimit, {<<1, "info_err">>, <<PageLimit, "embed_err">>}),
      PageShape(PageLimit, {<<2, "info_panic">>}),
      PageShape(PageLimit + 1, {<<2, "segment_err">>}) }

ShortPageShapes ==
    { PageShape(0, {}),
      PageShape(PageLimit - 1, {<<PageLimit - 1, "write_err">>}),
      PageShape(2, {<<1, "lyrics_err">>}) } \cup
    { PageShape(1, {<<1, f>>}) : f \in Fates }

\* ItemsPage.items of the answer to the page_no-th request
Items(page_no, shape) ==
    [i \in 1..shape.n |->
        Track(TrackId(page_no, i),
              IF \E b \in shape.bad : b[1] = i
              THEN (CHOOSE b \in shape.bad : b[1] = i)[2]
              ELSE "ok")]

\* the answers the service can give to the page_no-th page request: after
\* MaxPages - 1 pages of PageLimit items or more the next one is short
PageAnswers(page_no) ==
    { Err("Network", "page") } \cup
    { Ok(Items(page_no, sh)) :
        sh \in IF page_no < MaxPages THEN FullPageShapes \cup ShortPageShapes
                                     ELSE ShortPageShapes }

NoTrack == [pc |-> "idle", track |-> Track(0, "ok"), seg |-> 0, events |-> <<>>]

\* mutant of stage_result: a segment that could not be fetched is skipped
stage_result_skips_failed_segment(stage, seg, track) ==
    CASE stage = "stream_info" ->
            IF track.fate = "info_err" THEN "err"
            ELSE IF track.fate = "info_panic" THEN "panic" ELSE "next"
      [] stage = "stream_bytes" -> "next"
      [] stage = "write" -> IF track.fate = "write_err" THEN "err" ELSE "next"
      [] stage = "lyrics" -> IF track.fate = "lyrics_err" THEN "err" ELSE "next"
      [] stage = "embed" -> IF track.fate = "embed_err" THEN "err" ELSE "next"

\* what the `?` after each step of download_track sees
stage_result(stage, seg, track) ==
    CASE stage = "stream_info" ->
            IF track.fate = "info_err" THEN "err"
            ELSE IF track.fate = "info_panic" THEN "panic" ELSE "next"
      [] stage = "stream_bytes" ->
            IF track.fate = "segment_err" /\ seg = SegmentsPerTrack
            THEN "err" ELSE "next"
      [] stage = "write" -> IF track.fate = "write_err" THEN "err" ELSE "next"
      [] stage = "lyrics" -> IF track.fate = "lyrics_err" THEN "err" ELSE "next"
      [] stage = "embed" -> IF track.fate = "embed_err" THEN "err" ELSE "next"

\* the caller of download_track, once it has returned res: main propagates an
\* error with `?`, the loops of download_album and download_playlist report
\* it and go on; a panic unwinds through both
download_track_returns(res) ==
    IF ~res.ok /\ res.kind = "Panic"
    THEN [dl EXCEPT !.pc = "panicked", !.result = res,
                    !.ended = Append(dl.ended, [id |-> trk.track.id, ok |-> FALSE])]
    ELSE IF dl.mode = "track"
    THEN [dl EXCEPT !.pc = "done", !.result = res,
                    !.ended = Append(dl.ended, [id |-> trk.track.id, ok |-> res.ok])]
    ELSE [dl EXCEPT !.pc = "loop",
                    !.ended = Append(dl.ended, [id |-> trk.track.id, ok |-> res.ok]),
                    !.reports = IF res.ok THEN dl.reports
                                ELSE Append(dl.reports, trk.track.id)]

\* one step of download_track: st is the step, event what it did, next the
\* step that follows when the `?` lets the call go on
download_track_stage(st, event, next) ==
    /\ dl.pc = "track"
    /\ trk.pc = st
    /\ LET r == stage_result(st, trk.seg, trk.track) IN
       IF r = "next"
       THEN /\ trk' = [trk EXCEPT !.pc = next, !.events = Append(trk.events, event)]
            /\ IF next = "returned"
               THEN dl' = download_track_returns(Ok("unit"))
               ELSE UNCHANGED dl
       ELSE /\ trk' = [trk EXCEPT !.pc = "returned",
                                  !.events = Append(trk.events, event)]
            /\ dl' = download_track_returns(
                        IF r = "panic" THEN Panic("get_stream_info")
                                       ELSE Err("Message", st))

\* download_track: client.get_stream_info(track.id, HiResLossless).await?
download_track_stream_info ==
    /\ download_track_stage("stream_info",
            IF trk.track.fate \in {"info_err", "info_panic"}
            THEN "info:failed" ELSE "info:ok",
            "stream_bytes")
    /\ UNCHANGED <<files, tagged>>
    /\ UNCHANGED notDownloadVars

\* download_track: client.get_stream_bytes(&mut stream_info).await?, one
\* segment of its loop
download_track_segment ==
    /\ dl.pc = "track"
    /\ trk.pc = "stream_bytes"
    /\ LET failed == trk.track.fate = "segment_err" /\ trk.seg = SegmentsPerTrack
           event == IF failed THEN "segment:failed" ELSE "segment:ok"
           r == stage_result("stream_bytes", trk.seg, trk.track)
       IN
       IF r = "next"
       THEN /\ trk' = [trk EXCEPT !.events = Append(trk.events, event),
                                  !.seg = IF trk.seg < SegmentsPerTrack
                                          THEN trk.seg + 1 ELSE trk.seg,
                                  !.pc = IF trk.seg < SegmentsPerTrack
                                         THEN "stream_bytes" ELSE "write"]
            /\ UNCHANGED dl
       ELSE /\ trk' = [trk EXCEPT !.pc = "returned",
                                  !.events = Append(trk.events, event)]
            /\ dl' = download_track_returns(Err("Network", "segment"))
    /\ UNCHANGED <<files, tagged>>
    /\ UNCHANGED notDownloadVars

\* download_track: tokio::fs::write(&output_path, &data).await?; a write that
\* fails may leave the file behind
download_track_write ==
    /\ download_track_stage("write",
            IF trk.track.fate = "write_err" THEN "write:failed" ELSE "write:ok",
            "lyrics")
    /\ IF trk.track.fate = "write_err"
       THEN \E created \in BOOLEAN :
               files' = IF created THEN files \cup {trk.track.id} ELSE files
       ELSE files' = files \cup {trk.track.id}
    /\ UNCHANGED tagged
    /\ UNCHANGED notDownloadVars

\* download_track: download_lyrics(client, track.id, &lyrics_path, console).await?
download_track_lyrics ==
    /\ download_track_stage("lyrics",
            IF trk.track.fate = "lyrics_err" THEN "lyrics:failed" ELSE "lyrics:ok",
            "embed")
    /\ UNCHANGED <<files, tagged>>
    /\ UNCHANGED notDownloadVars

\* download_track: embed_metadata(client, &output_path, ...).await?, which
\* opens the file at output_path and saves the tags to it
download_track_embed ==
    /\ download_track_stage("embed",
            IF trk.track.fate = "embed_err" THEN "embed:failed" ELSE "embed:ok",
            "returned")
    /\ tagged' = IF trk.track.fate = "embed_err" THEN tagged
                 ELSE tagged \cup {trk.track.id}
    /\ UNCHANGED files
    /\ UNCHANGED notDownloadVars

\* the call of download_track on a track
BeginTrack(track) ==
    [pc |-> "stream_info", track |-> track, seg |-> 1, events |-> <<>>]

\* main, "track": client.get_track(track_id).await? and download_track
main_track ==
    /\ dl.pc = "start"
    /\ dl.mode = "track"
    /\ \E answer \in {Err("Api", "track")} \cup
                     {Ok(Track(TrackId(0, 1), f)) : f \in Fates} :
        IF answer.ok
        THEN /\ dl' = [dl EXCEPT !.pc = "track",
                                 !.begun = Append(dl.begun, answer.val.id)]
             /\ trk' = BeginTrack(answer.val)
        ELSE /\ dl' = [dl EXCEPT !.pc = "done", !.result = answer]
             /\ UNCHANGED trk
    /\ UNCHANGED <<files, tagged>>
    /\ UNCHANGED notDownloadVars

\* download_album up to its loop: get_album, create_dir_all and
\* get_album_tracks(album_id, 100, 0), each with `?`
download_album ==
    /\ dl.pc = "start"
    /\ dl.mode = "album"
    /\ \E answer \in {Err("Api", "album")} \cup
                     {Ok(Items(1, sh)) : sh \in FullPageShapes \cup ShortPageShapes} :
        IF answer.ok
        THEN dl' = [dl EXCEPT !.pc = "loop", !.page = answer.val, !.i = 0,
                        !.requests = Append(dl.requests,
                                            [limit |-> PageLimit, offset |-> 0]),
                        !.fetched = Append(dl.fetched, answer.val)]
        ELSE dl' = [dl EXCEPT !.pc = "done", !.result = answer]
    /\ UNCHANGED <<trk, files, tagged>>
    /\ UNCHANGED notDownloadVars

\* main, "playlist": client.get_playlist(&id).await?, then download_playlist
\* up to its loop: create_dir_all with `?`, offset = 0, limit = 100
download_playlist ==
    /\ dl.pc = "start"
    /\ dl.mode = "playlist"
    /\ \E ok \in BOOLEAN :
        IF ok
        THEN dl' = [dl EXCEPT !.pc = "fetch", !.offset = 0]
        ELSE dl' = [dl EXCEPT !.pc = "done", !.result = Err("Api", "playlist")]
    /\ UNCHANGED <<trk, files, tagged>>
    /\ UNCHANGED notDownloadVars

\* download_playlist: get_playlist_tracks(&playlist.uuid, limit, offset).await?
\* and the break on an empty page
download_playlist_fetch ==
    /\ dl.pc = "fetch"
    /\ \E answer \in PageAnswers(Len(dl.requests) + 1) :
        LET asked == Append(dl.requests, [limit |-> PageLimit, offset |-> dl.offset])
        IN
        IF ~answer.ok
        THEN dl' = [dl EXCEPT !.pc = "done", !.result = answer, !.requests = asked]
        ELSE IF answer.val = <<>>
        THEN dl' = [dl EXCEPT !.pc = "done", !.result = Ok("unit"),
                        !.requests = asked,
                        !.fetched = Append(dl.fetched, answer.val)]
        ELSE dl' = [dl EXCEPT !.pc = "loop", !.page = answer.val, !.i = 0,
                        !.requests = asked,
                        !.fetched = Append(dl.fetched, answer.val)]
    /\ UNCHANGED <<trk, files, tagged>>
    /\ UNCHANGED notDownloadVars

\* the loops over the items of a page: the next item goes to download_track
download_next_track ==
    /\ dl.pc = "loop"
    /\ dl.i < Len(dl.page)
    /\ dl' = [dl EXCEPT !.pc = "track", !.i = dl.i + 1,
                        !.begun = Append(dl.begun, dl.page[dl.i + 1].id)]
    /\ trk' = BeginTrack(dl.page[dl.i + 1])
    /\ UNCHANGED <<files, tagged>>
    /\ UNCHANGED notDownloadVars

\* the end of the loop over a page: download_album returns Ok(());
\* download_playlist adds limit to offset and breaks on a short page
download_page_end ==
    /\ dl.pc = "loop"
    /\ dl.i = Len(dl.page)
    /\ IF dl.mode = "album"
       THEN dl' = [dl EXCEPT !.pc = "done", !.result = Ok("unit")]
       ELSE IF Len(dl.page) < PageLimit
       THEN dl' = [dl EXCEPT !.pc = "done", !.result = Ok("unit"),
                             !.offset = dl.offset + PageLimit]
       ELSE dl' = [dl EXCEPT !.pc = "fetch", !.offset = dl.offset + PageLimit]
    /\ UNCHANGED <<trk, files, tagged>>
    /\ UNCHANGED notDownloadVars

Download(mode) ==
    [pc |-> "start", mode |-> mode, offset |-> 0, page |-> <<>>, i |-> 0,
     requests |-> <<>>, fetched |-> <<>>, begun |-> <<>>, ended |-> <<>>,
     reports |-> <<>>, result |-> NoResult]

DownloadIdle ==
    /\ dl = [Download("track") EXCEPT !.pc = "idle"]
    /\ trk = NoTrack
    /\ files = {}
    /\ tagged = {}

DownloadInit ==
    /\ dl \in { Download(mode) : mode \in {"track", "album", "playlist"} }
    /\ trk = NoTrack
    /\ files = {}
    /\ tagged = {}

----------------------------------------------------------------------------
(* Link parsing (tidal-dl/src/main.rs, parse_tidal_link)                    *)

Range(f) == { f[k] : k \in DOMAIN f }

\* a str is the sequence of its characters
DecimalDigits == <<"0", "1", "2", "3", "4", "5", "6", "7", "8", "9">>

HexIdChars == <<"a", "b", "c", "d", "e", "f", "0", "1", "2", "3", "4", "5", "6", "7", "8", "9", "-">>

TidalHost == <<"t", "i", "d", "a", "l", ".", "c", "o", "m">>

ListenHost == <<"l", "i", "s", "t", "e", "n", ".", "t", "i", "d", "a", "l", ".", "c", "o", "m">>

OtherHost == <<"e", "x", "a", "m", "p", "l", "e", ".", "o", "r", "g">>

Scheme == <<"h", "t", "t", "p", "s", ":", "/", "/">>

BrowsePrefix == <<"/", "b", "r", "o", "w", "s", "e">>

TrackPath == <<"/", "t", "r", "a", "c", "k", "/">>

AlbumPath == <<"/", "a", "l", "b", "u", "m", "/">>

PlaylistPath == <<"/", "p", "l", "a", "y", "l", "i", "s", "t", "/">>

VideoPath == <<"/", "v", "i", "d", "e", "o", "/">>

\* u64::MAX = 18446744073709551615, digit by digit
U64MaxDigits == <<1, 8, 4, 4, 6, 7, 4, 4, 0, 7, 3, 7, 0, 9, 5, 5, 1, 6, 1, 5>>

\* ids as they are written in links
DecimalIds ==
    { <<"5">>,
      <<"1", "2", "3">>,
      <<"0">>,
      <<"0", "0", "7">>,
      <<"1", "8", "4", "4", "6", "7", "4", "4", "0", "7", "3", "7", "0", "9", "5", "5", "1", "6", "1", "5">>,
      <<"1", "8", "4", "4", "6", "7", "4", "4", "0", "7", "3", "7", "0", "9", "5", "5", "1", "6", "1", "6">>,
      <<"1", "0", "0", "0", "0", "0", "0", "0", "0", "0", "0", "0", "0", "0", "0", "0", "0", "0", "0", "0", "0">> }

OtherIds ==
    { <<"a", "b", "-", "1", "2">>,
      <<"1", "2", "a", "b">>,
      <<"A", "B", "1", "2">>,
      <<"+", "5">>,
      <<"-", "5">>,
      <<"1", " ", "2">>,
      <<>> }

\* the links given on the command line
Links ==
    (DecimalIds \cup OtherIds) \cup
    { scheme \o host \o browse \o path \o id :
        scheme \in {<<>>, Scheme},
        host \in {TidalHost, ListenHost, OtherHost},
        browse \in {<<>>, BrowsePrefix},
        path \in {TrackPath, AlbumPath, PlaylistPath, VideoPath},
        id \in DecimalIds \cup OtherIds } \cup
    { Scheme \o TidalHost \o first \o <<"1", "2">> \o <<"?", "r", "=">> \o TidalHost \o second \o <<"3", "4">> :
        first \in {TrackPath, AlbumPath, PlaylistPath},
        second \in {TrackPath, AlbumPath, PlaylistPath} }

DigitValue(c) == (CHOOSE n \in 1..10 : DecimalDigits[n] = c) - 1

DigitChar(n) == DecimalDigits[n + 1]

RECURSIVE StripZeros(_)
StripZeros(digits) ==
    IF Len(digits) > 1 /\ digits[1] = 0 THEN StripZeros(Tail(digits)) ELSE digits

\* digits <= U64MaxDigits as numbers, both without leading zeros
FitsU64(digits) ==
    \/ Len(digits) < Len(U64MaxDigits)
    \/ /\ Len(digits) = Len(U64MaxDigits)
       /\ \/ digits = U64MaxDigits
          \/ \E k \in 1..Len(digits) :
                /\ digits[k] < U64MaxDigits[k]
                /\ \A j \in 1..(k - 1) : digits[j] = U64MaxDigits[j]

\* mutant of parse_u64: the digits are kept as written
parse_u64_keeps_leading_zeros(text) ==
    LET body == IF text # <<>> /\ text[1] = "+" THEN Tail(text) ELSE text
        digits == [k \in 1..Len(body) |-> DigitValue(body[k])]
    IN  IF body = <<>> THEN Err("ParseInt", "Empty")
        ELSE IF \E k \in 1..Len(body) : body[k] \notin Range(DecimalDigits)
        THEN Err("ParseInt", "InvalidDigit")
        ELSE IF ~FitsU64(StripZeros(digits)) THEN Err("ParseInt", "PosOverflow")
        ELSE Ok(digits)

\* str::parse::<u64>: an optional '+', then decimal digits, value at most
\* u64::MAX; the value is the sequence of its digits, most significant first
parse_u64(text) ==
    LET body == IF text # <<>> /\ text[1] = "+" THEN Tail(text) ELSE text
        digits == [k \in 1..Len(body) |-> DigitValue(body[k])]
    IN  IF body = <<>> THEN Err("ParseInt", "Empty")
        ELSE IF \E k \in 1..Len(body) : body[k] \notin Range(DecimalDigits)
        THEN Err("ParseInt", "InvalidDigit")
        ELSE IF ~FitsU64(StripZeros(digits)) THEN Err("ParseInt", "PosOverflow")
        ELSE Ok(StripZeros(digits))

\* u64::to_string
u64_to_string(value) == [k \in 1..Len(value) |-> DigitChar(value[k])]

StartsWithAt(text, at, word) ==
    /\ at + Len(word) - 1 <= Len(text)
    /\ SubSeq(text, at, at + Len(word) - 1) = word

\* the longest run of characters of class in text from position at (x+)
ClassRun(text, at, class) ==
    LET end == CHOOSE e \in (at - 1)..Len(text) :
                  /\ \A k \in at..e : text[k] \in class
                  /\ e = Len(text) \/ text[e + 1] \notin class
    IN SubSeq(text, at, end)

\* (?:/browse)?<path>(<class>+) matched at position at: the capture or <<>>
MatchPathAt(text, at, path, class) ==
    IF StartsWithAt(text, at, BrowsePrefix \o path)
       /\ ClassRun(text, at + Len(BrowsePrefix \o path), class) # <<>>
    THEN ClassRun(text, at + Len(BrowsePrefix \o path), class)
    ELSE IF StartsWithAt(text, at, path)
    THEN ClassRun(text, at + Len(path), class)
    ELSE <<>>

\* (?:tidal\.com|listen\.tidal\.com)(?:/browse)?<path>(<class>+) matched at
\* position at: the capture or <<>>
MatchAt(text, at, path, class) ==
    IF StartsWithAt(text, at, TidalHost)
    THEN MatchPathAt(text, at + Len(TidalHost), path, class)
    ELSE IF StartsWithAt(text, at, ListenHost)
    THEN MatchPathAt(text, at + Len(ListenHost), path, class)
    ELSE <<>>

\* Regex::captures: group 1 of the leftmost match, None when nothing matches
regex_captures(text, path, class) ==
    IF \E at \in 1..Len(text) : MatchAt(text, at, path, class) # <<>>
    THEN Some(MatchAt(text,
                      CHOOSE at \in 1..Len(text) :
                          /\ MatchAt(text, at, path, class) # <<>>
                          /\ \A b \in 1..(at - 1) : MatchAt(text, b, path, class) = <<>>,
                      path, class))
    ELSE None

\* Err(format!("Could not parse Tidal link: {}", link).into())
LinkError(link) ==
    [ok |-> FALSE, kind |-> "Message", msg |-> "Could not parse Tidal link: ",
     link |-> link]

parse_tidal_link(link) ==
    IF parse_u64(link).ok
    THEN Ok(<<"track", u64_to_string(parse_u64(link).val)>>)
    ELSE IF regex_captures(link, TrackPath, Range(DecimalDigits)).some
    THEN Ok(<<"track", regex_captures(link, TrackPath, Range(DecimalDigits)).v>>)
    ELSE IF regex_captures(link, AlbumPath, Range(DecimalDigits)).some
    THEN Ok(<<"album", regex_captures(link, AlbumPath, Range(DecimalDigits)).v>>)
    ELSE IF regex_captures(link, PlaylistPath, Range(HexIdChars)).some
    THEN Ok(<<"playlist", regex_captures(link, PlaylistPath, Range(HexIdChars)).v>>)
    ELSE LinkError(link)

\* main: parse_tidal_link(&args.link)
parse_tidal_link_call ==
    /\ link_st.result = NoResult
    /\ link_st.link \in Links
    /\ link_st' = [link_st EXCEPT !.result = parse_tidal_link(link_st.link)]
    /\ UNCHANGED notLinkVars

LinkIdle == link_st = [link |-> <<>>, result |-> LinkError(<<>>)]

LinkInit == link_st \in { [link |-> l, result |-> NoResult] : l \in Links }

----------------------------------------------------------------------------
(* HTTP calls and the request timeout (client.rs, auth.rs, stream.rs)       *)

\* ClientConfig::default: timeout: Duration::from_secs(30)
DefaultTimeout == 30

\* the timeouts a ClientConfig can carry (with_timeout), in seconds
TimeoutConfigs == 1..MaxTimeoutCfg \cup {DefaultTimeout}

\* who sends the request: TidalClient::get / post and the like, the
\* AuthSession calls to the token endpoints, the segment fetches of
\* get_stream_bytes
Callers == {"api", "token", "segment"}

\* the timeout of the reqwest client the caller uses: TidalClient::with_config
\* builds its client with .timeout(config.timeout), AuthSession::new and
\* get_stream_bytes use reqwest::Client::new(), which has none
client_timeout(caller, config_timeout) ==
    IF caller = "api" THEN Some(config_timeout) ELSE None

HttpCall(caller, config_timeout) ==
    [pc |-> "ready", caller |-> caller, config_timeout |-> config_timeout,
     timer |-> None, elapsed |-> 0, result |-> NoResult]

\* client.get(url).send(): the request leaves and the timer of the client,
\* if it has one, starts
http_send ==
    /\ net.pc = "ready"
    /\ net' = [net EXCEPT !.pc = "in_flight",
                          !.timer = client_timeout(net.caller, net.config_timeout)]
    /\ UNCHANGED notNetVars

\* one second passes on the timer of the request
timer_tick ==
    /\ net.pc = "in_flight"
    /\ net.timer.some
    /\ net.elapsed < net.timer.v
    /\ net' = [net EXCEPT !.elapsed = net.elapsed + 1]
    /\ UNCHANGED notNetVars

\* the timer of the request runs out: reqwest gives a timeout error
request_timeout ==
    /\ net.pc = "in_flight"
    /\ net.timer.some
    /\ net.elapsed = net.timer.v
    /\ net' = [net EXCEPT !.pc = "returned", !.result = Err("Network", "timeout")]
    /\ UNCHANGED notNetVars

\* the remote answers, or the connection breaks; nothing makes it do so
server_answers ==
    /\ net.pc = "in_flight"
    /\ \E res \in {Ok("response"), Err("Network", "connect")} :
        net' = [net EXCEPT !.pc = "returned", !.result = res]
    /\ UNCHANGED notNetVars

NetIdle == net = [HttpCall("api", DefaultTimeout) EXCEPT !.pc = "idle"]

NetInit == net \in { HttpCall(c, t) : c \in Callers, t \in TimeoutConfigs }

----------------------------------------------------------------------------
(* MPD projection (tidal-rs/src/core/api/playback.rs, parse_mpd)            *)

\* a u32 as two 16-bit halves, value hi * 2^16 + lo
HalfMax == 65535

U32(n) == [hi |-> 0, lo |-> n]

U32Max == [hi |-> HalfMax, lo |-> HalfMax]

\* repeat + 1 on u32: with overflow checks (debug builds) u32::MAX + 1
\* panics, without them (release builds) it wraps to 0
u32_add_one(x, overflow_checks) ==
    IF x.lo < HalfMax THEN Ok([hi |-> x.hi, lo |-> x.lo + 1])
    ELSE IF x.hi < HalfMax THEN Ok([hi |-> x.hi + 1, lo |-> 0])
    ELSE IF overflow_checks THEN Panic("attempt to add with overflow")
    ELSE Ok(U32(0))

\* a URL or URL template is a sequence of parts: literal text, the
\* $Number$ variable, a number put in its place
Lit(text) == [lit |-> text]

NumberVar == [var |-> "Number"]

Num(n) == [num |-> n]

InitUrls == { <<Lit("init.mp4")>> }

MediaTemplates == { <<Lit("seg"), NumberVar, Lit(".m4s")>> }

\* the value of an r attribute: text that parses as u32, or text that does not
Parses(x) == [parses |-> TRUE, value |-> x]

NotANumber == [parses |-> FALSE]

RepeatAttrs ==
    {None, Some(NotANumber), Some(Parses(U32Max))} \cup
    { Some(Parses(U32(n))) : n \in 0..MaxRepeat }

\* the events quick_xml reads from the document
Attrs(initialization, media, r) ==
    [initialization |-> initialization, media |-> media, r |-> r]

NoAttrs == Attrs(None, None, None)

StartEl(name, attrs) == [ev |-> "Start", name |-> name, attrs |-> attrs]

EmptyEl(name, attrs) == [ev |-> "Empty", name |-> name, attrs |-> attrs]

EndEl(name) == [ev |-> "End", name |-> name, attrs |-> NoAttrs]

XmlError == [ev |-> "Err", name |-> "", attrs |-> NoAttrs]

SElements == { EmptyEl("S", Attrs(None, None, r)) : r \in RepeatAttrs }

\* up to MaxS <S/> elements in a row
SRuns == UNION { [1..n -> SElements] : n \in 0..MaxS }

TemplateAttrs ==
    { Attrs(i, m, None) :
        i \in {None} \cup {Some(u) : u \in InitUrls},
        m \in {None} \cup {Some(t) : t \in MediaTemplates} }

\* what stands where the children of SegmentTemplate stand: nothing, an <S/>
\* without timeline, a timeline with its <S/> elements (and an <S/> after
\* it), a self-closing timeline followed by <S/> elements
TimelineParts ==
    { <<>>, <<EmptyEl("S", NoAttrs)>> } \cup
    { <<StartEl("SegmentTimeline", NoAttrs)>> \o ss \o <<EndEl("SegmentTimeline")>> \o after :
        ss \in SRuns, after \in {<<>>, <<EmptyEl("S", NoAttrs)>>} } \cup
    { <<EmptyEl("SegmentTimeline", NoAttrs)>> \o ss : ss \in SRuns }

\* the documents: an MPD element around a SegmentTemplate with children, a
\* self-closing SegmentTemplate, or none; possibly broken off by a syntax error
MpdBodies ==
    TimelineParts \cup
    { <<StartEl("SegmentTemplate", a)>> \o tl \o <<EndEl("SegmentTemplate")>> :
        a \in TemplateAttrs, tl \in TimelineParts } \cup
    { <<EmptyEl("SegmentTemplate", a)>> \o tl :
        a \in TemplateAttrs, tl \in TimelineParts }

MpdDocuments ==
    { <<StartEl("MPD", NoAttrs)>> \o body \o tail :
        body \in MpdBodies, tail \in {<<EndEl("MPD")>>, <<XmlError>>} }

\* DashManifest
DashManifest(mime_type, codecs, urls) ==
    [mime_type |-> mime_type, codecs |-> codecs, urls |-> urls]

\* media.replace("$Number$", &segment_number.to_string())
replace_number(media, segment_number) ==
    [k \in 1..Len(media) |->
        IF media[k] = NumberVar THEN Num(segment_number) ELSE media[k]]

RECURSIVE media_urls(_, _, _)
\* the loops over segment_durations: count URLs for each entry, segment_number
\* going up by one per URL; first is the number of the next URL
media_urls(media, counts, first) ==
    IF counts = <<>> THEN <<>>
    ELSE [n \in 1..counts[1].lo |-> replace_number(media, first + n - 1)]
         \o media_urls(media, Tail(counts), first + counts[1].lo)

\* parse_mpd after the event loop
project_urls(initialization_url, media_template, segment_durations) ==
    LET urls == (IF initialization_url.some THEN <<initialization_url.v>> ELSE <<>>)
                \o (IF media_template.some
                    THEN media_urls(media_template.v, segment_durations, 1)
                    ELSE <<>>)
    IN  IF urls = <<>>
        THEN Err("Manifest", "No URLs found in DASH manifest")
        ELSE Ok(DashManifest("audio/mp4", "", urls))

\* the r attribute of an <S>: parse().unwrap_or(0), 0 when absent
repeat_of(attrs) ==
    IF attrs.r.some /\ attrs.r.v.parses THEN attrs.r.v.value ELSE U32(0)

\* parse_mpd: one turn of the event loop
parse_mpd_read_event ==
    /\ mpd_st.pc = "scan"
    /\ mpd_st.pos <= Len(mpd_st.events)
    /\ LET e == mpd_st.events[mpd_st.pos]
           opening == e.ev \in {"Start", "Empty"}
           next == [mpd_st EXCEPT !.pos = mpd_st.pos + 1]
       IN
       mpd_st' =
         IF e.ev = "Err"
         THEN [mpd_st EXCEPT !.pc = "done", !.result = Err("Xml", "syntax error")]
         ELSE IF opening /\ e.name = "SegmentTemplate"
         THEN [next EXCEPT
                 !.initialization_url = IF e.attrs.initialization.some
                                        THEN e.attrs.initialization
                                        ELSE mpd_st.initialization_url,
                 !.media_template = IF e.attrs.media.some
                                    THEN e.attrs.media
                                    ELSE mpd_st.media_template]
         ELSE IF opening /\ e.name = "SegmentTimeline"
         THEN [next EXCEPT !.in_segment_timeline = TRUE]
         ELSE IF opening /\ e.name = "S" /\ mpd_st.in_segment_timeline
         THEN LET count == u32_add_one(repeat_of(e.attrs), mpd_st.overflow_checks) IN
              IF count.ok
              THEN [next EXCEPT !.segment_durations =
                                    Append(mpd_st.segment_durations, count.val)]
              ELSE [mpd_st EXCEPT !.pc = "done", !.result = count]
         ELSE IF e.ev = "End" /\ e.name = "SegmentTimeline"
         THEN [next EXCEPT !.in_segment_timeline = FALSE]
         ELSE next
    /\ UNCHANGED notMpdVars

\* parse_mpd: Event::Eof, then the URL list is built
parse_mpd_eof ==
    /\ mpd_st.pc = "scan"
    /\ mpd_st.pos > Len(mpd_st.events)
    /\ mpd_st' = [mpd_st EXCEPT
                    !.pc = "done",
                    !.result = project_urls(mpd_st.initialization_url,
                                            mpd_st.media_template,
                                            mpd_st.segment_durations)]
    /\ UNCHANGED notMpdVars

ParseMpd(events, overflow_checks) ==
    [pc |-> "scan", events |-> events, overflow_checks |-> overflow_checks,
     pos |-> 1, in_segment_timeline |-> FALSE, initialization_url |-> None,
     media_template |-> None, segment_durations |-> <<>>, result |-> NoResult]

MpdIdle == mpd_st = [ParseMpd(<<>>, TRUE) EXCEPT !.pc = "idle"]

MpdInit ==
    mpd_st \in { ParseMpd(doc, checks) : doc \in MpdDocuments, checks \in BOOLEAN }

----------------------------------------------------------------------------
(* Album credits (tidal-rs/src/core/api/albums.rs)                          *)

\* `let limit = 100u32`
CreditsLimit == 100

\* a TrackCredits item, named by the request that brought it and its place
\* in that page
TrackCredits(request, i) == [request |-> request, i |-> i]

AlbumItemsCreditsResponse(limit, offset, total_number_of_items, items) ==
    [limit |-> limit, offset |-> offset,
     total_number_of_items |-> total_number_of_items, items |-> items]

\* what get_album_items_credits can return for the n-th request: an error of
\* TidalClient::get, or a page with any number of items and any total
CreditsAnswers(n, offset) ==
    { Err(k, "") : k \in {"Network", "Api"} } \cup
    { Ok(AlbumItemsCreditsResponse(CreditsLimit, offset, total,
                                   [i \in 1..count |-> TrackCredits(n, i)])) :
        count \in 0..MaxPageItems, total \in 0..MaxTotal }

\* one turn of the loop of get_all_album_track_credits: the request, the
\* `?`, extend, the test against total_number_of_items, offset += limit
get_all_album_track_credits_request ==
    /\ credits_st.pc = "loop"
    /\ Len(credits_st.requests) < MaxCreditRequests
    /\ \E response \in CreditsAnswers(Len(credits_st.requests) + 1, credits_st.offset) :
        LET asked == [credits_st EXCEPT
                        !.requests = Append(credits_st.requests,
                                            [limit |-> CreditsLimit,
                                             offset |-> credits_st.offset]),
                        !.responses = Append(credits_st.responses, response)]
            all_credits == credits_st.all_credits \o response.val.items
        IN
        credits_st' =
            IF ~response.ok
            THEN [asked EXCEPT !.pc = "done", !.result = response]
            ELSE IF Len(all_credits) >= response.val.total_number_of_items
            THEN [asked EXCEPT !.pc = "done", !.all_credits = all_credits,
                               !.result = Ok(all_credits)]
            ELSE [asked EXCEPT !.all_credits = all_credits,
                               !.offset = credits_st.offset + CreditsLimit]
    /\ UNCHANGED notCreditsVars

CreditsCall ==
    [pc |-> "loop", offset |-> 0, all_credits |-> <<>>, requests |-> <<>>,
     responses |-> <<>>, result |-> NoResult]

CreditsIdle == credits_st = [CreditsCall EXCEPT !.pc = "idle"]

CreditsInit == credits_st = CreditsCall

----------------------------------------------------------------------------
(* Tagging (tidal-dl/src/main.rs, embed_metadata)                           *)

\* the keys of the tag that the credits and the artists write
ItemKeys == {"Composer", "Producer", "Comment"}

ArtistNames == {"Ann", "Bob"}

\* Track, as far as embed_metadata reads it for these keys: the artist, the
\* artists and whether the track has an album
EmbedTracks ==
    { [id |-> 7, artist |-> a, artists |-> as, album |-> al] :
        a \in {None, Some("Ann")},
        as \in {<<>>, <<"Bob">>, <<"Ann", "Bob">>},
        al \in BOOLEAN }

\* Credit
Credit(credit_type, contributors) ==
    [credit_type |-> credit_type, contributors |-> contributors]

CreditTypes == {"Composer", "composers", "Producer", "Mastering"}

Credits ==
    { Credit(t, c) : t \in CreditTypes, c \in {<<>>, <<"Cy">>, <<"Cy", "Di">>} }

CreditLists == UNION { [1..n -> Credits] : n \in 0..MaxCredits }

\* AlbumPageModule
AlbumPageModule(module_type, credits) ==
    [module_type |-> module_type, credits |-> credits]

\* the modules of an AlbumPage, rows flattened
AlbumPages ==
    { <<>>, <<AlbumPageModule("ALBUM_HEADER", None)>> } \cup
    { <<AlbumPageModule("ALBUM_HEADER", Some(cl))>> : cl \in CreditLists } \cup
    { <<AlbumPageModule("ALBUM_ITEMS", Some(<<Credit("Composer", <<"Di">>)>>)),
        AlbumPageModule("ALBUM_HEADER", Some(cl))>> : cl \in CreditLists }

\* outcomes of TidalClient::get_album_page
AlbumPageAnswers == {Err("Api", "")} \cup { Ok(page) : page \in AlbumPages }

\* the tag read from the file: it has a Composer already, or none
ExistingTags ==
    { [k \in ItemKeys |-> IF k = "Composer" THEN c ELSE None] :
        c \in {None, Some("Old")} }

\* what Tag::insert_text does with an empty text is up to the lofty version:
\* the item is stored, the insert is refused, or the item is taken out
EmptyTextPolicies == {"stored", "refused", "removed"}

RECURSIVE join(_, _)
\* names.join(sep)
join(names, sep) ==
    IF names = <<>> THEN ""
    ELSE IF Len(names) = 1 THEN names[1]
    ELSE names[1] \o sep \o join(Tail(names), sep)

\* str::to_lowercase on the credit types
to_lowercase(text) ==
    CASE text = "Composer" -> "composer"
      [] text = "Producer" -> "producer"
      [] text = "Mastering" -> "mastering"
      [] OTHER -> text

\* Tag::insert_text
insert_text(tag, key, text, empty_text) ==
    IF text # "" \/ empty_text = "stored" THEN [tag EXCEPT ![key] = Some(text)]
    ELSE IF empty_text = "refused" THEN tag
    ELSE [tag EXCEPT ![key] = None]

\* Track::primary_artist
primary_artist(track) ==
    IF track.artist.some THEN track.artist
    ELSE IF track.artists # <<>> THEN Some(track.artists[1])
    ELSE None

\* the Composer written before the credits are read: the primary artist,
\* else the joined artists
composer_default(tag, track, empty_text) ==
    IF primary_artist(track).some
    THEN insert_text(tag, "Composer", primary_artist(track).v, empty_text)
    ELSE insert_text(tag, "Composer", join(track.artists, ", "), empty_text)

\* the comment written before the credits are read: comment_parts is never
\* empty, it ends with the Tidal ID
comment_default(tag, track, empty_text) ==
    LET comment == "Tidal ID: 7" IN
    IF tag["Comment"].some
    THEN insert_text(tag, "Comment", tag["Comment"].v \o " | " \o comment, empty_text)
    ELSE insert_text(tag, "Comment", comment, empty_text)

\* the ALBUM_HEADER credits of an album page: the first module of that type,
\* and its credits if it has any
album_credits(page) ==
    LET headers == { k \in 1..Len(page) : page[k].module_type = "ALBUM_HEADER" } IN
    IF headers = {} THEN None
    ELSE page[CHOOSE k \in headers : \A j \in headers : k <= j].credits

\* one turn of `for credit in credits.iter()`
apply_credit(tag, credit, empty_text) ==
    LET contributors == join(credit.contributors, ", ")
        lower == to_lowercase(credit.credit_type)
    IN  IF contributors = "" THEN tag
        ELSE IF lower \in {"producer", "producers"}
        THEN insert_text(tag, "Producer", contributors, empty_text)
        ELSE IF lower \in {"composer", "composers"}
        THEN (IF ~tag["Composer"].some
              THEN insert_text(tag, "Composer", contributors, empty_text)
              ELSE tag)
        ELSE LET credit_info == credit.credit_type \o ": " \o contributors IN
             IF tag["Comment"].some
             THEN insert_text(tag, "Comment",
                              tag["Comment"].v \o " | " \o credit_info, empty_text)
             ELSE insert_text(tag, "Comment", credit_info, empty_text)

RECURSIVE apply_credits(_, _, _)
apply_credits(tag, credits, empty_text) ==
    IF credits = <<>> THEN tag
    ELSE apply_credits(apply_credit(tag, Head(credits), empty_text),
                       Tail(credits), empty_text)

\* embed_metadata from Probe::open to the lyrics: the file is read and the
\* tags that come from the track are set
embed_metadata_track_tags ==
    /\ embed_st.pc = "open"
    /\ \E opened \in BOOLEAN :
        embed_st' =
            IF ~opened
            THEN [embed_st EXCEPT !.pc = "done", !.result = Err("Lofty", "")]
            ELSE [embed_st EXCEPT
                    !.pc = "credits",
                    !.tag = comment_default(
                                composer_default(embed_st.file_tag, embed_st.track,
                                                 embed_st.empty_text),
                                embed_st.track, embed_st.empty_text)]
    /\ UNCHANGED notEmbedVars

\* embed_metadata: get_album_page for a track with an album, and the loop
\* over the ALBUM_HEADER credits
embed_metadata_credits ==
    /\ embed_st.pc = "credits"
    /\ \E answer \in (IF embed_st.track.album THEN AlbumPageAnswers ELSE {NoResult}) :
        LET credits == IF embed_st.track.album /\ answer.ok
                       THEN album_credits(answer.val)
                       ELSE None
        IN embed_st' =
             [embed_st EXCEPT
                !.pc = "save",
                !.page = answer,
                !.tag = IF credits.some
                        THEN apply_credits(embed_st.tag, credits.v, embed_st.empty_text)
                        ELSE embed_st.tag]
    /\ UNCHANGED notEmbedVars

\* embed_metadata: fetch_cover_image(track).await? and save_to_path(..)?
embed_metadata_save ==
    /\ embed_st.pc = "save"
    /\ \E cover \in BOOLEAN, saved \in BOOLEAN :
        embed_st' =
            IF ~cover
            THEN [embed_st EXCEPT !.pc = "done", !.result = Err("Network", "")]
            ELSE IF ~saved
            THEN [embed_st EXCEPT !.pc = "done", !.result = Err("Lofty", "")]
            ELSE [embed_st EXCEPT !.pc = "done", !.result = Ok("unit"),
                                  !.file_tag = embed_st.tag]
    /\ UNCHANGED notEmbedVars

EmbedCall(track, file_tag, empty_text) ==
    [pc |-> "open", track |-> track, empty_text |-> empty_text,
     file_tag |-> file_tag, tag |-> file_tag, page |-> NoResult,
     result |-> NoResult]

EmbedIdle ==
    embed_st = [EmbedCall([id |-> 7, artist |-> None, artists |-> <<>>, album |-> FALSE],
                          [k \in ItemKeys |-> None], "stored")
                EXCEPT !.pc = "idle"]

EmbedInit ==
    embed_st \in { EmbedCall(t, f, e) :
                     t \in EmbedTracks, f \in ExistingTags, e \in EmptyTextPolicies }

----------------------------------------------------------------------------
(* Lyrics (tidal-rs/src/core/lyrics.rs)                                     *)

\* u64 values and Durations are wider than the integers of the checker:
\* a number is the sequence of its decimal digits, most significant first,
\* without leading zeros (as parse_u64 gives it); a Duration is its length
\* in milliseconds

Front(seq) == SubSeq(seq, 1, Len(seq) - 1)

RECURSIVE NatDigits(_)
NatDigits(n) == IF n < 10 THEN <<n>> ELSE Append(NatDigits(n \div 10), n % 10)

RECURSIVE MulCarry(_, _, _)
MulCarry(digits, m, carry) ==
    IF digits = <<>> THEN NatDigits(carry)
    ELSE LET last == digits[Len(digits)] * m + carry IN
         Append(MulCarry(Front(digits), m, last \div 10), last % 10)

\* digits * m, for a small m
Times(digits, m) == StripZeros(MulCarry(digits, m, 0))

RECURSIVE AddCarry(_, _, _)
AddCarry(a, b, carry) ==
    IF a = <<>> /\ b = <<>> THEN <<carry>>
    ELSE LET x == IF a = <<>> THEN 0 ELSE a[Len(a)]
             y == IF b = <<>> THEN 0 ELSE b[Len(b)]
             sum == x + y + carry
         IN Append(AddCarry(IF a = <<>> THEN a ELSE Front(a),
                            IF b = <<>> THEN b ELSE Front(b), sum \div 10),
                   sum % 10)

Plus(a, b) == StripZeros(AddCarry(a, b, 0))

\* a <= b
LessEq(a, b) ==
    \/ Len(a) < Len(b)
    \/ /\ Len(a) = Len(b)
       /\ \/ a = b
          \/ \E k \in 1..Len(a) :
                /\ a[k] < b[k]
                /\ \A j \in 1..(k - 1) : a[j] = b[j]

RECURSIVE SubBorrow(_, _, _)
SubBorrow(a, b, borrow) ==
    IF a = <<>> THEN <<>>
    ELSE LET y == IF b = <<>> THEN 0 ELSE b[Len(b)]
             diff == a[Len(a)] - y - borrow
         IN Append(SubBorrow(Front(a), IF b = <<>> THEN b ELSE Front(b),
                             IF diff < 0 THEN 1 ELSE 0),
                   IF diff < 0 THEN diff + 10 ELSE diff)

\* a - b, for b <= a
Minus(a, b) == StripZeros(SubBorrow(a, b, 0))

\* 2^64
TwoTo64 == Plus(U64MaxDigits, <<1>>)

RECURSIVE WrapU64(_)
\* value mod 2^64
WrapU64(value) ==
    IF FitsU64(value) THEN value ELSE WrapU64(Minus(value, TwoTo64))

\* the result of a u64 operation whose exact value is given: with overflow
\* checks (debug builds) an overflow panics, without them it wraps
u64_result(value, overflow_checks) ==
    IF FitsU64(value) THEN Ok(value)
    ELSE IF overflow_checks THEN Panic("arithmetic overflow")
    ELSE Ok(WrapU64(value))

\* a * m in u64
u64_mul(a, m, overflow_checks) == u64_result(Times(a, m), overflow_checks)

\* x + y in u64, for the results x and y of earlier operations: the first
\* overflow is what the expression gives
u64_add(x, y, overflow_checks) ==
    IF ~x.ok THEN x
    ELSE IF ~y.ok THEN y
    ELSE u64_result(Plus(x.val, y.val), overflow_checks)

\* Duration::from_secs, Duration::from_millis
from_secs(secs) == Times(secs, 1000)

from_millis(millis) == millis

\* a str is the sequence of its characters; indexes into a str count bytes
len_utf8(c) == IF c = "é" THEN 2 ELSE 1

RECURSIVE str_len(_)
str_len(text) ==
    IF text = <<>> THEN 0 ELSE len_utf8(text[1]) + str_len(Tail(text))

\* the byte index at which character k of text begins
byte_offset(text, k) == str_len(SubSeq(text, 1, k - 1))

\* str::find(char)
str_find(text, c) ==
    IF \E k \in 1..Len(text) : text[k] = c
    THEN Some(byte_offset(text, CHOOSE k \in 1..Len(text) :
                                    /\ text[k] = c
                                    /\ \A j \in 1..(k - 1) : text[j] # c))
    ELSE None

\* &text[from..to]: panics when from > to, when to is past the end and when
\* an index is not on a character boundary
str_slice(text, from, to) ==
    LET at(i) == { k \in 1..(Len(text) + 1) : byte_offset(text, k) = i } IN
    IF from > to \/ at(from) = {} \/ at(to) = {}
    THEN Panic("byte index out of range or not a char boundary")
    ELSE Ok(SubSeq(text, CHOOSE k \in at(from) : TRUE, (CHOOSE k \in at(to) : TRUE) - 1))

WhiteSpace == {" ", "\n", "\r", "\t"}

RECURSIVE trim_start(_)
trim_start(text) ==
    IF text # <<>> /\ text[1] \in WhiteSpace THEN trim_start(Tail(text)) ELSE text

RECURSIVE trim_end(_)
trim_end(text) ==
    IF text # <<>> /\ text[Len(text)] \in WhiteSpace THEN trim_end(Front(text)) ELSE text

\* str::trim
trim(text) == trim_end(trim_start(text))

RECURSIVE split(_, _)
\* str::split at the characters of seps
split(text, seps) ==
    IF \E k \in 1..Len(text) : text[k] \in seps
    THEN LET k == CHOOSE k \in 1..Len(text) :
                    /\ text[k] \in seps
                    /\ \A j \in 1..(k - 1) : text[j] \notin seps
         IN <<SubSeq(text, 1, k - 1)>> \o split(SubSeq(text, k + 1, Len(text)), seps)
    ELSE <<text>>

\* str::lines: split at "\n", a "\r" before it dropped, no empty last line
lines(text) ==
    LET parts == split(text, {"\n"})
        whole == IF parts[Len(parts)] = <<>> THEN Front(parts) ELSE parts
    IN [k \in 1..Len(whole) |->
          IF whole[k] # <<>> /\ whole[k][Len(whole[k])] = "\r"
          THEN Front(whole[k]) ELSE whole[k]]

LyricLine(time, text) == [time |-> time, text |-> text]

SyncedLyrics(lyric_lines) == [lines |-> lyric_lines]

\* Some(Duration::from_secs(secs)), for the result secs of the arithmetic
secs_duration(secs) == IF ~secs.ok THEN secs ELSE Ok(Some(from_secs(secs.val)))

\* Some(Duration::from_millis(millis)), for the result millis of the arithmetic
millis_duration(millis) ==
    IF ~millis.ok THEN millis ELSE Ok(Some(from_millis(millis.val)))

\* the arms of `match parts.len()` in parse_lrc_timestamp; fields are the
\* parts parsed as u64
lrc_duration(fields, overflow_checks) ==
    IF Len(fields) \notin {2, 3} THEN Ok(None)
    ELSE IF \E k \in 1..Len(fields) : ~fields[k].ok THEN Ok(None)
    ELSE IF Len(fields) = 2
    THEN secs_duration(
             u64_add(u64_mul(fields[1].val, 60, overflow_checks),
                     fields[2], overflow_checks))
    ELSE millis_duration(
             u64_add(u64_add(u64_mul(fields[1].val, 60000, overflow_checks),
                             u64_mul(fields[2].val, 1000, overflow_checks),
                             overflow_checks),
                     u64_mul(fields[3].val, 10, overflow_checks),
                     overflow_checks))

parse_fields(parts) == [k \in 1..Len(parts) |-> parse_u64(parts[k])]

\* parse_lrc_timestamp: Ok(None), Ok(Some(duration)) or a panic on overflow
parse_lrc_timestamp(ts, overflow_checks) ==
    lrc_duration(parse_fields(split(ts, {":", "."})), overflow_checks)

\* `if let Some(time) = .. { if !text.is_empty() { lines.push(..) } }`
lrc_push(time, text) ==
    IF ~time.ok THEN time
    ELSE IF time.val.some /\ text # <<>>
    THEN Ok(Some(LyricLine(time.val.v, text)))
    ELSE Ok(None)

\* the body of `if let Some(bracket_end) = line.find(']')`, for the two
\* slices of the line
lrc_tagged(timestamp, rest, overflow_checks) ==
    IF ~timestamp.ok THEN timestamp
    ELSE IF ~rest.ok THEN rest
    ELSE lrc_push(parse_lrc_timestamp(timestamp.val, overflow_checks),
                  trim(rest.val))

lrc_line(line, bracket_end, overflow_checks) ==
    IF line = <<>> \/ ~bracket_end.some THEN Ok(None)
    ELSE lrc_tagged(str_slice(line, 1, bracket_end.v),
                    str_slice(line, bracket_end.v + 1, str_len(line)),
                    overflow_checks)

\* one turn of `for line in content.lines()` of parse_lrc: Ok(None) when
\* nothing is pushed, Ok(Some(line)) when a LyricLine is pushed, or a panic
parse_lrc_line(raw, overflow_checks) ==
    lrc_line(trim(raw), str_find(trim(raw), "]"), overflow_checks)

\* the lines pushed by one turn and by the turns after it
lrc_pushed(first, others) ==
    IF ~first.ok THEN first
    ELSE IF ~others.ok THEN others
    ELSE Ok((IF first.val.some THEN <<first.val.v>> ELSE <<>>) \o others.val)

RECURSIVE parse_lrc_lines(_, _)
\* the loop of parse_lrc: the LyricLines pushed, or the first panic
parse_lrc_lines(raw_lines, overflow_checks) ==
    IF raw_lines = <<>> THEN Ok(<<>>)
    ELSE lrc_pushed(parse_lrc_line(raw_lines[1], overflow_checks),
                    parse_lrc_lines(Tail(raw_lines), overflow_checks))

RECURSIVE sort_by_time(_)
\* lines.sort_by(|a, b| a.time.cmp(&b.time)): a stable sort
sort_by_time(lyric_lines) ==
    IF lyric_lines = <<>> THEN <<>>
    ELSE LET sorted == sort_by_time(Front(lyric_lines))
             x == lyric_lines[Len(lyric_lines)]
             before == { k \in 1..Len(sorted) : LessEq(sorted[k].time, x.time) }
             n == Cardinality(before)
         IN SubSeq(sorted, 1, n) \o <<x>> \o SubSeq(sorted, n + 1, Len(sorted))

\* the end of parse_lrc and of parse_ttml: None for no lines, else the lines
\* sorted by time
sorted_lyrics(pushed) ==
    IF ~pushed.ok THEN pushed
    ELSE IF pushed.val = <<>> THEN Ok(None)
    ELSE Ok(Some(SyncedLyrics(sort_by_time(pushed.val))))

\* SyncedLyrics::parse_lrc
parse_lrc(content, overflow_checks) ==
    sorted_lyrics(parse_lrc_lines(lines(content), overflow_checks))

\* str::split_once(char)
split_once(text, c) ==
    IF \E k \in 1..Len(text) : text[k] = c
    THEN LET k == CHOOSE k \in 1..Len(text) :
                    text[k] = c /\ \A j \in 1..(k - 1) : text[j] # c
         IN Some(<<SubSeq(text, 1, k - 1), SubSeq(text, k + 1, Len(text))>>)
    ELSE None

\* format!("{:0<3}", text): filled with '0' on the right up to 3 characters
pad_zeros(text) ==
    text \o [k \in 1..(IF Len(text) < 3 THEN 3 - Len(text) ELSE 0) |-> "0"]

\* the seconds and the milliseconds parsed, or None
secs_millis(secs, millis) ==
    IF ~secs.ok \/ ~millis.ok THEN Ok(None) ELSE Ok(Some(<<secs.val, millis.val>>))

\* the arm of parse_seconds_millis for "secs.millis"; cut is the slice
\* &millis_str[..millis_str.len().min(3)]
secs_and_fraction(secs, cut) ==
    IF ~secs.ok THEN Ok(None)
    ELSE IF ~cut.ok THEN cut
    ELSE secs_millis(secs, parse_u64(pad_zeros(cut.val)))

seconds_millis(text, halves) ==
    IF halves.some
    THEN secs_and_fraction(
             parse_u64(halves.v[1]),
             str_slice(halves.v[2], 0, Min(str_len(halves.v[2]), 3)))
    ELSE secs_millis(parse_u64(text), Ok(<<0>>))

\* parse_seconds_millis: Ok(None), Ok(Some(<<secs, millis>>)) or a panic of
\* the slice of the fraction
parse_seconds_millis(text) == seconds_millis(text, split_once(text, "."))

\* hours * 3_600_000 + mins * 60_000 + secs * 1000 + millis
ttml_millis(hours, mins, sm, overflow_checks) ==
    u64_add(u64_add(u64_add(u64_mul(hours, 3600000, overflow_checks),
                            u64_mul(mins, 60000, overflow_checks),
                            overflow_checks),
                    u64_mul(sm[1], 1000, overflow_checks),
                    overflow_checks),
            Ok(sm[2]), overflow_checks)

\* an arm of `match parts.len()` in parse_ttml_timestamp; the two-part arm
\* has no hours
ttml_duration(hours, mins, sm, overflow_checks) ==
    IF ~hours.ok \/ ~mins.ok THEN Ok(None)
    ELSE IF ~sm.ok THEN sm
    ELSE IF ~sm.val.some THEN Ok(None)
    ELSE millis_duration(ttml_millis(hours.val, mins.val, sm.val.v, overflow_checks))

ttml_parts(parts, overflow_checks) ==
    IF Len(parts) = 2
    THEN ttml_duration(Ok(<<0>>), parse_u64(parts[1]),
                       parse_seconds_millis(parts[2]), overflow_checks)
    ELSE IF Len(parts) = 3
    THEN ttml_duration(parse_u64(parts[1]), parse_u64(parts[2]),
                       parse_seconds_millis(parts[3]), overflow_checks)
    ELSE Ok(None)

\* parse_ttml_timestamp: Ok(None), Ok(Some(duration)) or a panic
parse_ttml_timestamp(ts, overflow_checks) ==
    ttml_parts(split(ts, {":"}), overflow_checks)

\* the events quick_xml reads from a TTML document (trim_text is on)
XmlStart(name, begin) == [ev |-> "Start", name |-> name, begin |-> begin, text |-> <<>>]

XmlEmpty(name, begin) == [ev |-> "Empty", name |-> name, begin |-> begin, text |-> <<>>]

XmlEnd(name) == [ev |-> "End", name |-> name, begin |-> None, text |-> <<>>]

XmlText(text) == [ev |-> "Text", name |-> "", begin |-> None, text |-> text]

XmlSyntaxError == [ev |-> "Err", name |-> "", begin |-> None, text |-> <<>>]

XmlEof == [ev |-> "Eof", name |-> "", begin |-> None, text |-> <<>>]

\* reader.read_event(): the k-th event, Eof after the last one
read_event(events, k) == IF k <= Len(events) THEN events[k] ELSE XmlEof

RECURSIVE parse_ttml_loop(_, _, _, _)
\* the loop of parse_ttml from event k on; st holds lines, current_begin,
\* current_text and in_p_element; gives the lines pushed, or a panic
parse_ttml_loop(events, k, st, overflow_checks) ==
    LET e == read_event(events, k) IN
    IF e.ev \in {"Eof", "Err"} THEN Ok(st.lines)
    ELSE IF e.ev \in {"Start", "Empty"} /\ e.name = "p"
    THEN LET begin == IF e.begin.some
                      THEN parse_ttml_timestamp(e.begin.v, overflow_checks)
                      ELSE Ok(st.current_begin)
         IN IF ~begin.ok THEN begin
            ELSE parse_ttml_loop(events, k + 2,
                    [st EXCEPT !.current_begin = begin.val,
                               !.current_text = <<>>,
                               !.in_p_element = read_event(events, k + 1).ev # "Empty"],
                    overflow_checks)
    ELSE IF e.ev = "Text"
    THEN parse_ttml_loop(events, k + 1,
            IF st.in_p_element
            THEN [st EXCEPT !.current_text = st.current_text \o e.text]
            ELSE st,
            overflow_checks)
    ELSE IF e.ev = "End" /\ e.name = "p"
    THEN parse_ttml_loop(events, k + 1,
            [st EXCEPT
                !.in_p_element = FALSE,
                !.current_begin = None,
                !.current_text = <<>>,
                !.lines = IF st.current_begin.some /\ trim(st.current_text) # <<>>
                          THEN Append(st.lines, LyricLine(st.current_begin.v,
                                                          trim(st.current_text)))
                          ELSE st.lines],
            overflow_checks)
    ELSE parse_ttml_loop(events, k + 1, st, overflow_checks)

\* SyncedLyrics::parse_ttml
parse_ttml(events, overflow_checks) ==
    sorted_lyrics(parse_ttml_loop(events, 1,
                     [lines |-> <<>>, current_begin |-> None,
                      current_text |-> <<>>, in_p_element |-> FALSE],
                     overflow_checks))

\* str::contains
contains(text, word) == \E at \in 1..Len(text) : StartsWithAt(text, at, word)

\* SyncedLyrics::parse; a content is its text and, for what is read as XML,
\* the events quick_xml reads from that text
SyncedLyrics_parse(content, overflow_checks) ==
    LET text == trim(content.text) IN
    IF text # <<>> /\ text[1] = "["
    THEN parse_lrc(text, overflow_checks)
    ELSE IF contains(text, <<"<", "t", "t">>) \/ contains(text, <<"<", "p", " ">>)
    THEN parse_ttml(content.xml, overflow_checks)
    ELSE Ok(None)

RECURSIVE binary_search_loop(_, _, _, _)
\* slice::binary_search_by with the comparator of find_line_index, which
\* says Less for line.time <= position and Greater otherwise, never Equal:
\* the result is always Err(i); indexes count from 0
binary_search_loop(lyric_lines, position, base, size) ==
    IF size > 1
    THEN LET half == size \div 2
             mid == base + half
         IN binary_search_loop(lyric_lines, position,
                               IF LessEq(lyric_lines[mid + 1].time, position)
                               THEN mid ELSE base,
                               size - half)
    ELSE base + (IF LessEq(lyric_lines[base + 1].time, position) THEN 1 ELSE 0)

\* mutant of find_line_index: the line found is counted from the end
find_line_index_from_end(lyrics, position) ==
    IF lyrics.lines = <<>> THEN None
    ELSE LET i == binary_search_loop(lyrics.lines, position, 0, Len(lyrics.lines))
             idx == IF i = 0 THEN 0 ELSE i - 1
         IN IF LessEq(lyrics.lines[idx + 1].time, position)
            THEN Some(Len(lyrics.lines) - 1 - idx)
            ELSE None

\* SyncedLyrics::find_line_index (line_index_at), indexes from 0
find_line_index(lyrics, position) ==
    IF lyrics.lines = <<>> THEN None
    ELSE LET i == binary_search_loop(lyrics.lines, position, 0, Len(lyrics.lines))
             idx == IF i = 0 THEN 0 ELSE i - 1
         IN IF LessEq(lyrics.lines[idx + 1].time, position) THEN Some(idx) ELSE None

\* mutant of LyricsDisplay_update_returns: the current line is returned also
\* when it did not change
LyricsDisplay_update_always_returns(lyrics, last_index, current_index) ==
    IF current_index.some THEN Some(lyrics.lines[current_index.v + 1].text) ELSE None

\* what LyricsDisplay::update returns
LyricsDisplay_update_returns(lyrics, last_index, current_index) ==
    IF current_index # last_index
    THEN (IF current_index.some
          THEN Some(lyrics.lines[current_index.v + 1].text) ELSE None)
    ELSE None

\* ---- the inputs

Tagged(ts, text) == <<"[">> \o ts \o <<"]">> \o text

Ts0010 == <<"0", "0", ":", "1", "0">>

Ts010230 == <<"0", "1", ":", "0", "2", ".", "3", "0">>

\* 307445734561825861 minutes: times 60 it is 2^64 + 44
TsOverflow ==
    <<"3", "0", "7", "4", "4", "5", "7", "3", "4", "5", "6", "1", "8", "2", "5",
      "8", "6", "1", ":", "0", "0">>

\* lines of LRC content that begin with '['
LrcHeadLines ==
    { Tagged(Ts0010, <<"a">>),
      Tagged(Ts010230, <<"b">>),
      Tagged(Ts0010, <<"b">>),
      Tagged(<<"0", "0", ":", "0", "5">>, <<" ">>),
      Tagged(<<"a", ":", "1", "0">>, <<"a">>),
      <<"[">> \o Ts0010,
      Tagged(TsOverflow, <<"a">>) }

LrcLines == LrcHeadLines \cup { <<"]", "a">> }

RECURSIVE JoinLines(_)
JoinLines(ls) ==
    IF Len(ls) = 1 THEN ls[1] ELSE ls[1] \o <<"\n">> \o JoinLines(Tail(ls))

LrcTexts ==
    { JoinLines(ls) :
        ls \in { ls \in UNION { [1..n -> LrcLines] : n \in 1..MaxLines } :
                   ls[1] \in LrcHeadLines } }

TtmlBegins ==
    { Some(<<"0", ":", "1", "0">>),
      Some(<<"1", ":", "0", "2", ".", "5">>),
      Some(<<"0", ":", "0", "1", ".", "1", "2", "é">>),
      Some(<<"x">>) }

\* <p begin=..><span>a</span></p>, <p begin=..>a</p>, <p begin=../>
TtmlParagraphs ==
    { <<XmlStart("p", b), XmlStart("span", None), XmlText(<<"a">>),
        XmlEnd("span"), XmlEnd("p")>> : b \in TtmlBegins } \cup
    { <<XmlStart("p", b), XmlText(<<"b">>), XmlEnd("p")>> : b \in TtmlBegins } \cup
    { <<XmlEmpty("p", b)>> : b \in TtmlBegins }

RECURSIVE Flatten(_)
Flatten(seqs) == IF seqs = <<>> THEN <<>> ELSE seqs[1] \o Flatten(Tail(seqs))

TtmlDocuments ==
    { <<XmlStart("tt", None)>> \o Flatten(ps) \o tail :
        ps \in UNION { [1..n -> TtmlParagraphs] : n \in 1..MaxParagraphs },
        tail \in { <<XmlEnd("tt")>>, <<XmlSyntaxError>> } }

\* what is handed to SyncedLyrics::parse
LyricsContents ==
    { [text |-> t, xml |-> <<>>] : t \in LrcTexts } \cup
    { [text |-> <<" ", "<", "t", "t", ">">>, xml |-> d] : d \in TtmlDocuments } \cup
    { [text |-> t, xml |-> <<>>] : t \in { <<>>, <<"x">>, <<"]", "a">> } }

\* playback positions, milliseconds
Positions ==
    { NatDigits(n) : n \in {5000, 10000, 62300, 99000} }

\* ---- the calls

\* SyncedLyrics::parse(content)
SyncedLyrics_parse_call ==
    /\ lyrics_st.pc = "parse"
    /\ \E parsed \in { SyncedLyrics_parse(lyrics_st.content,
                                          lyrics_st.overflow_checks) } :
        lyrics_st' = [lyrics_st EXCEPT
                        !.parsed = parsed,
                        !.pc = IF parsed.ok /\ parsed.val.some
                               THEN "parsed" ELSE "done"]
    /\ UNCHANGED notLyricsVars

\* LyricsDisplay::new(lyrics)
LyricsDisplay_new ==
    /\ lyrics_st.pc = "parsed"
    /\ lyrics_st' = [lyrics_st EXCEPT !.pc = "display", !.last_index = None]
    /\ UNCHANGED notLyricsVars

NoUpdate == [called |-> FALSE, position |-> <<0>>, before |-> None,
             current_index |-> None, returned |-> None]

\* LyricsDisplay::update(position); the last two calls are kept
LyricsDisplay_update ==
    /\ lyrics_st.pc = "display"
    /\ \E position \in Positions :
        LET lyrics == lyrics_st.parsed.val.v
            current_index == find_line_index(lyrics, position)
        IN lyrics_st' =
             [lyrics_st EXCEPT
                !.last_index = IF current_index # lyrics_st.last_index
                               THEN current_index ELSE lyrics_st.last_index,
                !.previous = lyrics_st.last,
                !.last = [called |-> TRUE, position |-> position,
                          before |-> lyrics_st.last_index,
                          current_index |-> current_index,
                          returned |-> LyricsDisplay_update_returns(
                                           lyrics, lyrics_st.last_index, current_index)]]
    /\ UNCHANGED notLyricsVars

LyricsCall(content, overflow_checks) ==
    [pc |-> "parse", content |-> content, overflow_checks |-> overflow_checks,
     parsed |-> NoResult, last_index |-> None, previous |-> NoUpdate,
     last |-> NoUpdate]

LyricsIdle ==
    lyrics_st = [LyricsCall([text |-> <<>>, xml |-> <<>>], TRUE) EXCEPT !.pc = "idle"]

LyricsInit ==
    lyrics_st \in { LyricsCall(c, checks) : c \in LyricsContents, checks \in BOOLEAN }

NoCall == [pc |-> "idle", calls |-> 0, i |-> 0, data |-> <<>>, fetched |-> <<>>,
           result |-> NoResult, encryption_at_call |-> None, previous |-> NoResult]

StreamIdle ==
    /\ playback_info = None
    /\ cdn = <<>>
    /\ stream_info = None
    /\ psi_result = NoResult
    /\ gsb = NoCall

AuthIdle ==
    /\ pc = "done"
    /\ clock = Now0
    /\ cred_file = AbsentFile
    /\ file_at_start = AbsentFile
    /\ creds = None
    /\ token = None
    /\ client = None
    /\ interval = 0
    /\ result = NoResult
    /\ poll_start = 0
    /\ poll_times = <<>>
    /\ poll_responses = <<>>
    /\ poll_result = NoResult
    /\ refresh_posts = 0
    /\ refresh_resp = None
    /\ refresh_result = NoResult
    /\ device_auths = 0
    /\ session_gets = 0
    /\ session_resp = None
    /\ writes = 0

StreamInit ==
    /\ playback_info \in { Some(pi) : pi \in PlaybackInfos }
    /\ cdn \in [1..MaxSegs -> SegmentBodies]
    /\ stream_info = None
    /\ psi_result = NoResult
    /\ gsb = NoCall

NextStream ==
    \/ get_stream_info
    \/ get_stream_bytes
    \/ get_stream_bytes_segment
    \/ get_stream_bytes_return

InitStream == AuthIdle /\ StreamInit /\ RetryIdle /\ DownloadIdle /\ LinkIdle /\ NetIdle /\ MpdIdle
    /\ CreditsIdle /\ EmbedIdle /\ LyricsIdle

InitRetry == AuthIdle /\ StreamIdle /\ RetryInit /\ DownloadIdle /\ LinkIdle /\ NetIdle /\ MpdIdle
    /\ CreditsIdle /\ EmbedIdle /\ LyricsIdle

InitDownload == AuthIdle /\ StreamIdle /\ RetryIdle /\ DownloadInit /\ LinkIdle /\ NetIdle /\ MpdIdle
    /\ CreditsIdle /\ EmbedIdle /\ LyricsIdle

InitLink == AuthIdle /\ StreamIdle /\ RetryIdle /\ DownloadIdle /\ LinkInit /\ NetIdle /\ MpdIdle
    /\ CreditsIdle /\ EmbedIdle /\ LyricsIdle

NextLink == parse_tidal_link_call

SpecLink == InitLink /\ [][NextLink]_vars

NextDownload ==
    \/ main_track
    \/ download_album
    \/ download_playlist
    \/ download_playlist_fetch
    \/ download_next_track
    \/ download_page_end
    \/ download_track_stream_info
    \/ download_track_segment
    \/ download_track_write
    \/ download_track_lyrics
    \/ download_track_embed

SpecDownload == InitDownload /\ [][NextDownload]_vars

NextRetry ==
    \/ get_with_retry_sleep
    \/ get_with_retry_attempt
    \/ post_call

SpecRetry == InitRetry /\ [][NextRetry]_vars

SpecStream == InitStream /\ [][NextStream]_vars

InitNet == AuthIdle /\ StreamIdle /\ RetryIdle /\ DownloadIdle /\ LinkIdle /\ NetInit /\ MpdIdle
    /\ CreditsIdle /\ EmbedIdle /\ LyricsIdle

NextNet ==
    \/ http_send
    \/ timer_tick
    \/ request_timeout
    \/ server_answers

\* the runtime sends the request and drives its timers; nothing obliges the
\* remote to answer
SpecNetFair ==
    /\ InitNet
    /\ [][NextNet]_vars
    /\ WF_vars(http_send)
    /\ WF_vars(timer_tick)
    /\ WF_vars(request_timeout)

InitMpd ==
    AuthIdle /\ StreamIdle /\ RetryIdle /\ DownloadIdle /\ LinkIdle /\ NetIdle /\ MpdInit
    /\ CreditsIdle /\ EmbedIdle /\ LyricsIdle

NextMpd ==
    \/ parse_mpd_read_event
    \/ parse_mpd_eof

SpecMpd == InitMpd /\ [][NextMpd]_vars

InitCredits ==
    /\ AuthIdle /\ StreamIdle /\ RetryIdle /\ DownloadIdle /\ LinkIdle /\ NetIdle
    /\ MpdIdle /\ CreditsInit /\ EmbedIdle /\ LyricsIdle

NextCredits == get_all_album_track_credits_request

SpecCredits == InitCredits /\ [][NextCredits]_vars

InitEmbed ==
    /\ AuthIdle /\ StreamIdle /\ RetryIdle /\ DownloadIdle /\ LinkIdle /\ NetIdle
    /\ MpdIdle /\ CreditsIdle /\ EmbedInit /\ LyricsIdle

NextEmbed ==
    \/ embed_metadata_track_tags
    \/ embed_metadata_credits
    \/ embed_metadata_save

SpecEmbed == InitEmbed /\ [][NextEmbed]_vars

InitLyrics ==
    /\ AuthIdle /\ StreamIdle /\ RetryIdle /\ DownloadIdle /\ LinkIdle /\ NetIdle
    /\ MpdIdle /\ CreditsIdle /\ EmbedIdle /\ LyricsInit

NextLyrics ==
    \/ SyncedLyrics_parse_call
    \/ LyricsDisplay_new
    \/ LyricsDisplay_update

SpecLyrics == InitLyrics /\ [][NextLyrics]_vars

Init == AuthInit /\ StreamIdle /\ RetryIdle /\ DownloadIdle /\ LinkIdle /\ NetIdle /\ MpdIdle
    /\ CreditsIdle /\ EmbedIdle /\ LyricsIdle

Spec == Init /\ [][Next]_vars

----------------------------------------------------------------------------
(* Properties of stream acquisition, checked under SpecStream              *)

RECURSIVE ConcatBodies(_)
ConcatBodies(urls) ==
    IF urls = <<>> THEN <<>> ELSE cdn[Head(urls)] \o ConcatBodies(Tail(urls))

RECURSIVE SumLen(_)
SumLen(urls) ==
    IF urls = <<>> THEN 0 ELSE Len(cdn[Head(urls)]) + SumLen(Tail(urls))

\* one pass over a whole byte string with the keystream starting at `start`
WholeDecrypt(key, start, bytes) ==
    [i \in 1..Len(bytes) |-> Xor(bytes[i], Keystream(key, start + i - 1))]

Succeeded == gsb.calls > 0 /\ gsb.pc = "idle" /\ gsb.result.ok

\* C1 (as stated): a successful get_stream_bytes has fetched the urls in list
\* order and returns the one-pass decryption, keystream from offset 0 of a
\* fresh decryptor, of the concatenated segment bodies (the plain
\* concatenation without a decryptor); the length is the sum of the lengths.
C1_DecryptsFromOffsetZero ==
    Succeeded =>
        LET urls == stream_info.v.urls
            enc == gsb.encryption_at_call
        IN  /\ gsb.fetched = urls
            /\ Len(gsb.result.val) = SumLen(urls)
            /\ gsb.result.val = IF enc.some
                                THEN WholeDecrypt(enc.v.key, 0, ConcatBodies(urls))
                                ELSE ConcatBodies(urls)

\* C1 (amended): the same, with the keystream starting at the offset the
\* decryptor of the StreamInfo had when the call began, which is 0 for the
\* first use of a freshly built StreamInfo.
C1_DecryptsFromCallOffset ==
    Succeeded =>
        LET urls == stream_info.v.urls
            enc == gsb.encryption_at_call
        IN  /\ gsb.fetched = urls
            /\ Len(gsb.result.val) = SumLen(urls)
            /\ gsb.result.val = IF enc.some
                                THEN WholeDecrypt(enc.v.key, enc.v.pos, ConcatBodies(urls))
                                ELSE ConcatBodies(urls)
            /\ (enc.some /\ gsb.calls = 1) => enc.v.pos = 0

\* an encrypted stream of two non-empty segments was fetched and decrypted
C1_Witness ==
    /\ Succeeded
    /\ gsb.encryption_at_call.some
    /\ Len(stream_info.v.urls) >= 2
    /\ \A i \in 1..Len(stream_info.v.urls) : Len(cdn[stream_info.v.urls[i]]) > 0
    /\ gsb.result.val # ConcatBodies(stream_info.v.urls)

UnwrapSucceeds(manifest) ==
    /\ manifest.key_id.some
    /\ decrypt_key_id(manifest.key_id.v).ok

\* C2: parse_stream_info yields a StreamInfo with a decryptor exactly for a
\* BTS manifest with OLD_AES whose key_id is present and unwraps; no
\* decryptor for BTS with NONE and for DASH; and it fails for another MIME
\* type (with a Manifest-kind error), for another encryption_type and for
\* OLD_AES without key_id.
C2_ParseStreamInfoDispatch ==
    psi_result # NoResult =>
        LET pi == playback_info.v
            bts == pi.manifest_mime_type = MimeBts /\ pi.manifest.fmt = "bts"
        IN  /\ (psi_result.ok /\ psi_result.val.encryption.some)
                 <=> (bts /\ pi.manifest.encryption_type = "OLD_AES"
                          /\ UnwrapSucceeds(pi.manifest))
            /\ (bts /\ pi.manifest.encryption_type = "NONE") =>
                    (psi_result.ok /\ ~psi_result.val.encryption.some)
            /\ (pi.manifest_mime_type = MimeDash /\ psi_result.ok) =>
                    ~psi_result.val.encryption.some
            /\ pi.manifest_mime_type \notin {MimeBts, MimeDash} =>
                    (~psi_result.ok /\ psi_result.kind = "Manifest" /\ ~stream_info.some)
            /\ (bts /\ pi.manifest.encryption_type \notin {"OLD_AES", "NONE"}) =>
                    (~psi_result.ok /\ ~stream_info.some)
            /\ (bts /\ pi.manifest.encryption_type = "OLD_AES" /\ ~pi.manifest.key_id.some) =>
                    (~psi_result.ok /\ ~stream_info.some)

----------------------------------------------------------------------------
(* Properties of the session bootstrap, checked under Spec                 *)

Returned(r) == r # NoResult

IsPending(r) ==
    /\ r.transport
    /\ r.status \notin 200..299
    /\ r.body.json = "error"
    /\ r.body.error = "authorization_pending"

IsSlowDown(r) ==
    /\ r.transport
    /\ r.status \notin 200..299
    /\ r.body.json = "error"
    /\ r.body.error = "slow_down"

IsGrant(r) ==
    /\ r.transport
    /\ r.status \in 200..299
    /\ r.body.json = "token"

IsFatalError(r) ==
    /\ r.transport
    /\ r.status \notin 200..299
    /\ r.body.json = "error"
    /\ r.body.error \notin {"authorization_pending", "slow_down"}

TokenOf(body) ==
    [access_token |-> body.access_token,
     refresh_token |-> IF body.refresh_token = None THEN "" ELSE body.refresh_token.v,
     expires_in |-> body.expires_in]

\* C3: n answers authorization_pending followed by a 2xx answer with a token
\* body: exactly n+1 POSTs, the k-th of them k*interval after the start, and
\* that token is returned.
C3_PendingThenGranted ==
    \A n \in 0..(MaxPolls - 1) :
        ( /\ Len(poll_responses) > n
          /\ \A k \in 1..n : IsPending(poll_responses[k])
          /\ IsGrant(poll_responses[n + 1]) )
        => /\ Len(poll_times) = n + 1
           /\ \A k \in 1..(n + 1) : poll_times[k] = poll_start + k * interval
           /\ poll_result = Ok(TokenOf(poll_responses[n + 1].body))
           /\ token = Some(TokenOf(poll_responses[n + 1].body))

\* pending, pending, 200 OK: three calls and the token
C3_Witness ==
    /\ Len(poll_responses) = 3
    /\ IsPending(poll_responses[1])
    /\ IsPending(poll_responses[2])
    /\ IsGrant(poll_responses[3])
    /\ Returned(poll_result)
    /\ poll_result.ok

FatalMessage(body) ==
    CASE body.error = "expired_token" -> "code expired"
      [] body.error = "access_denied" -> "access denied"
      [] OTHER -> body.error \o ": " \o
                    (IF body.error_description = None THEN "None"
                     ELSE "Some(\"" \o body.error_description.v \o "\")")

\* C4: a non-2xx answer whose error is neither authorization_pending nor
\* slow_down is the last POST of poll_for_token, which returns the Auth
\* error "code expired", "access denied" or "<error>: <description>".
C4_FatalErrorStopsPolling ==
    \A k \in 1..Len(poll_responses) :
        IsFatalError(poll_responses[k]) =>
            /\ k = Len(poll_responses)
            /\ pc = "done"
            /\ poll_result = Err("Auth", FatalMessage(poll_responses[k].body))
            /\ result = poll_result

\* a denial on the second poll, and an unknown error with a description
C4_Witness ==
    /\ Len(poll_responses) = 2
    /\ IsPending(poll_responses[1])
    /\ IsFatalError(poll_responses[2])
    /\ poll_responses[2].body.error = "invalid_grant"
    /\ poll_responses[2].body.error_description # None
    /\ pc = "done"

\* C5: after a slow_down answer poll_for_token has not returned, and its
\* next POST comes 5 + interval seconds after the one answered slow_down.
C5_SlowDownAddsFiveSeconds ==
    \A k \in 1..Len(poll_responses) :
        IsSlowDown(poll_responses[k]) =>
            /\ k = Len(poll_responses) =>
                    /\ pc \in {"poll_slow_down", "poll_sleep", "poll_post"}
                    /\ ~Returned(poll_result)
                    /\ clock <= poll_times[k] + 5 + interval
            /\ k < Len(poll_responses) =>
                    poll_times[k + 1] = poll_times[k] + 5 + interval

\* a slow_down answer was followed by the next POST
C5_Witness ==
    /\ Len(poll_responses) >= 2
    /\ IsSlowDown(poll_responses[1])
    /\ poll_times[2] = poll_start + 2 * interval + 5

\* C6: refresh_token makes one POST; a non-2xx answer gives an Auth error,
\* a 2xx answer gives what its body parses to.
C6_RefreshOnePost ==
    /\ refresh_posts <= 1
    /\ Returned(refresh_result) <=> refresh_posts = 1
    /\ refresh_resp.some =>
        LET r == refresh_resp.v IN
        /\ refresh_posts = 1
        /\ (r.transport /\ r.status \notin 200..299) =>
                (~refresh_result.ok /\ refresh_result.kind = "Auth")
        /\ (r.transport /\ r.status \in 200..299) =>
                /\ (refresh_result.ok \/ refresh_result.kind = "Json")
                /\ r.body.json = "token" => refresh_result = Ok(TokenOf(r.body))

\* a refresh was refused with a non-2xx answer that carries a token body
C6_Witness ==
    /\ refresh_resp.some
    /\ refresh_resp.v.transport
    /\ refresh_resp.v.status = 400
    /\ refresh_resp.v.body.json = "token"
    /\ device_auths = 1

RefreshPersisted ==
    /\ pc = "done"
    /\ Returned(refresh_result)
    /\ refresh_result.ok
    /\ writes = 1

\* C7: after a successful refresh the persisted refresh_token is the one of
\* the refresh response if that is non-empty and the stored one otherwise; a
\* stored non-empty refresh token is never replaced by an empty one.
C7_RefreshTokenFallsBack ==
    RefreshPersisted =>
        /\ cred_file.refresh_token =
                IF refresh_result.val.refresh_token # ""
                THEN refresh_result.val.refresh_token
                ELSE file_at_start.refresh_token
        /\ file_at_start.refresh_token # "" => cred_file.refresh_token # ""

Expired == file_at_start.tag = "creds" /\ Now0 + 300 > file_at_start.expires_at

StillValid == file_at_start.tag = "creds" /\ Now0 + 300 <= file_at_start.expires_at

RefreshFailed == Returned(refresh_result) /\ ~refresh_result.ok

DeviceAuthEntered == pc = "start_device_auth" \/ device_auths > 0

\* C8: no stored credentials: device authorization, no refresh.  Stored and
\* now + 300 > expires_at: exactly one refresh, and device authorization
\* exactly when the refresh failed.  Stored and now + 300 <= expires_at: no
\* refresh, no device authorization, credentials file not rewritten.
C8_BootstrapPath ==
    /\ device_auths <= 1
    /\ file_at_start.tag = "absent" =>
            /\ refresh_posts = 0
            /\ pc # "get_client" => DeviceAuthEntered
    /\ Expired =>
            /\ refresh_posts <= 1
            /\ pc \notin {"get_client", "refresh_token"} => refresh_posts = 1
            /\ DeviceAuthEntered <=> RefreshFailed
    /\ StillValid =>
            /\ refresh_posts = 0
            /\ ~DeviceAuthEntered
            /\ writes = 0
            /\ cred_file = file_at_start

\* a failed refresh was followed by a device authorization that went through
C8_Witness ==
    /\ Expired
    /\ RefreshFailed
    /\ device_auths = 1
    /\ pc = "done"
    /\ Returned(result)
    /\ result.ok

\* C9: the credentials file is written only with a token in hand and after
\* a successful GET /sessions; a run that ends in an error wrote nothing and
\* left the file as it was.
C9_WriteOnlyAfterSession ==
    /\ (writes > 0 \/ cred_file # file_at_start) =>
            /\ writes = 1
            /\ token.some
            /\ session_resp.some
            /\ session_resp.v.ok
            /\ pc = "done"
    /\ ( \/ Returned(result) /\ ~result.ok
         \/ Returned(poll_result) /\ ~poll_result.ok
         \/ session_resp.some /\ ~session_resp.v.ok ) =>
            /\ writes = 0
            /\ cred_file = file_at_start

\* a denial on the second poll with a credentials file in place
C9_Witness ==
    /\ file_at_start.tag = "creds"
    /\ Len(poll_responses) = 2
    /\ poll_result = Err("Auth", "access denied")
    /\ pc = "done"
    /\ cred_file = file_at_start

\* C10: whenever credentials were persisted, their country_code is the
\* countryCode of the GET /sessions answer of this run.
C10_CountryCodeFromSession ==
    writes > 0 => cred_file.country_code = session_resp.v.val.country_code

----------------------------------------------------------------------------
(* HTTP client core                                                         *)

IsTransportFailure(ex) == ~ex.transport

IsErrorStatus(ex) == ex.transport /\ ~is_success(ex.status)

IsParsedAnswer(ex) == ex.transport /\ is_success(ex.status) /\ ex.json = "value"

IsUnparsedAnswer(ex) == ex.transport /\ is_success(ex.status) /\ ex.json # "value"

LastExchange == retry.exchanges[Len(retry.exchanges)]

\* C11: when every attempt of get_with_retry fails at transport level there
\* are exactly max_retries + 1 attempts, the k-th retry comes after a wait of
\* retry_delay * k, and the Network error of the last attempt is returned; an
\* attempt that succeeds is the last one and its value is returned.
C11_RetryOnNetworkFailure ==
    retry.token_ok =>
        /\ \A k \in 1..Len(retry.waits) :
              retry.waits[k] = retry.config.retry_delay * k
        /\ Len(retry.waits) =
              IF retry.pc = "attempt" THEN Len(retry.exchanges)
                                      ELSE Len(retry.exchanges) - 1
        /\ Len(retry.exchanges) <= retry.config.max_retries + 1
        /\ ( /\ retry.pc = "done"
             /\ \A k \in 1..Len(retry.exchanges) :
                   IsTransportFailure(retry.exchanges[k]) )
           => /\ Len(retry.exchanges) = retry.config.max_retries + 1
              /\ retry.result = Err("Network", LastExchange.cause)
        /\ \A k \in 1..Len(retry.exchanges) :
              IsParsedAnswer(retry.exchanges[k])
              => /\ k = Len(retry.exchanges)
                 /\ retry.pc = "done"
                 /\ retry.result = Ok("value")

C11_Witness ==
    /\ retry.pc = "done"
    /\ retry.token_ok
    /\ retry.config.max_retries = DefaultMaxRetries
    /\ Len(retry.exchanges) = DefaultMaxRetries + 1
    /\ \A k \in 1..Len(retry.exchanges) : IsTransportFailure(retry.exchanges[k])
    /\ retry.exchanges[1].cause # LastExchange.cause
    /\ retry.waits = <<retry.config.retry_delay, retry.config.retry_delay * 2,
                       retry.config.retry_delay * 3>>

\* C12: an attempt of get_with_retry that receives a non-2xx answer is the
\* last one and the Api error with that status is returned; one that receives
\* a 2xx answer whose body does not parse is the last one and the Json error
\* is returned; every attempt that was followed by another one failed at
\* transport level.
C12_OnlyNetworkRetried ==
    retry.token_ok =>
        \A k \in 1..Len(retry.exchanges) :
            LET ex == retry.exchanges[k] IN
            /\ IsErrorStatus(ex)
               => /\ k = Len(retry.exchanges)
                  /\ retry.pc = "done"
                  /\ ~retry.result.ok
                  /\ retry.result.kind = "Api"
                  /\ retry.result.status = ex.status
            /\ IsUnparsedAnswer(ex)
               => /\ k = Len(retry.exchanges)
                  /\ retry.pc = "done"
                  /\ retry.result = Err("Json", "")
            /\ k < Len(retry.exchanges) => IsTransportFailure(ex)

FirstBytes(text, n) == SubSeq(text, 1, IF Len(text) <= n THEN Len(text) ELSE n)

\* C13: on a non-2xx answer get_once and post return the Api error made of the
\* status and the first 200 bytes of the body (the whole body when it is
\* shorter), whatever the body is.
C13_ApiErrorFirst200Bytes ==
    /\ ( /\ retry.pc = "done"
         /\ retry.token_ok
         /\ IsErrorStatus(LastExchange) )
       => retry.result =
            ApiError(LastExchange.status, FirstBytes(LastExchange.text, 200))
    /\ ( /\ post_st.called
         /\ post_st.exchange.some
         /\ IsErrorStatus(post_st.exchange.v) )
       => post_st.result =
            ApiError(post_st.exchange.v.status,
                     FirstBytes(post_st.exchange.v.text, 200))

----------------------------------------------------------------------------
(* Downloads                                                                *)

RECURSIVE IdsOf(_)
\* the ids of the items of a list of pages, in order
IdsOf(pages) ==
    IF pages = <<>> THEN <<>>
    ELSE [k \in 1..Len(pages[1]) |-> pages[1][k].id] \o IdsOf(Tail(pages))

Terminated == dl.pc \in {"done", "panicked"}

RECURSIVE FailedIds(_)
FailedIds(ended) ==
    IF ended = <<>> THEN <<>>
    ELSE (IF ended[1].ok THEN <<>> ELSE <<ended[1].id>>) \o FailedIds(Tail(ended))

\* an error download_album / download_playlist return without any track
\* having failed: metadata or page request refused
IsListingError(res) ==
    res \in {Err("Api", "album"), Err("Api", "playlist"), Err("Network", "page")}

\* C14: in download_album and download_playlist the items of the fetched
\* pages go to download_track once each, in list order, one after the other
\* has returned; each failed download_track is reported, the later items are
\* still processed and the download does not return an error for it.
C14_EveryTrackOnceInOrder ==
    dl.mode \in {"album", "playlist"} =>
        /\ Len(dl.begun) <= Len(IdsOf(dl.fetched))
        /\ dl.begun = SubSeq(IdsOf(dl.fetched), 1, Len(dl.begun))
        /\ Len(dl.ended) = IF dl.pc = "track" THEN Len(dl.begun) - 1
                                              ELSE Len(dl.begun)
        /\ \A k \in 1..Len(dl.ended) : dl.ended[k].id = dl.begun[k]
        /\ dl.reports = FailedIds(dl.ended)
        /\ Terminated =>
              /\ dl.begun = IdsOf(dl.fetched)
              /\ dl.result.ok \/ IsListingError(dl.result)

\* C15: download_playlist asks for 100 items at offsets 0, 100, 200, ... in
\* that order, asks for no page after an empty one or one of fewer than 100
\* items, and has processed every item of every page it fetched when it ends.
C15_PlaylistPaging ==
    dl.mode = "playlist" =>
        /\ \A k \in 1..Len(dl.requests) :
              dl.requests[k] = [limit |-> 100, offset |-> 100 * (k - 1)]
        /\ \A k \in 1..Len(dl.fetched) :
              Len(dl.fetched[k]) < 100
              => /\ k = Len(dl.fetched)
                 /\ Len(dl.requests) = k
                 /\ dl.pc # "fetch"
        /\ Terminated => dl.begun = IdsOf(dl.fetched)

Occurs(event) == \E k \in 1..Len(trk.events) : trk.events[k] = event

Before(first, then) ==
    \A k \in 1..Len(trk.events) :
        trk.events[k] = then => \E j \in 1..(k - 1) : trk.events[j] = first

SegmentsFetched ==
    Cardinality({k \in 1..Len(trk.events) : trk.events[k] = "segment:ok"})

\* C16: in download_track the audio file is written only after
\* get_stream_info has returned the stream info and get_stream_bytes has
\* fetched every segment; embed_metadata works on the file only after the
\* write of that file has succeeded; when get_stream_info or a segment fetch
\* fails, the track has no audio file.
C16_WriteAfterStreamThenEmbed ==
    trk.pc # "idle" =>
        /\ (Occurs("write:ok") \/ Occurs("write:failed") \/ trk.track.id \in files)
           => /\ trk.events[1] = "info:ok"
              /\ SegmentsFetched = SegmentsPerTrack
              /\ ~Occurs("segment:failed")
              /\ Before("segment:ok", "write:ok")
              /\ Before("segment:ok", "write:failed")
        /\ Before("write:ok", "embed:ok")
        /\ Before("write:ok", "embed:failed")
        /\ (Occurs("embed:ok") \/ Occurs("embed:failed")) => trk.track.id \in files
        /\ trk.track.id \in tagged => Occurs("embed:ok")
        /\ (Occurs("info:failed") \/ Occurs("segment:failed"))
           => /\ trk.track.id \notin files
              /\ trk.track.id \notin tagged

C16_Witness ==
    /\ dl.mode = "playlist"
    /\ Occurs("segment:failed")
    /\ Occurs("segment:ok")
    /\ trk.track.id \notin files
    /\ \E id \in tagged : id \in files

----------------------------------------------------------------------------
(* Link parsing                                                             *)

IsDecimal(text) ==
    text # <<>> /\ \A k \in 1..Len(text) : text[k] \in Range(DecimalDigits)

IsHexId(text) ==
    text # <<>> /\ \A k \in 1..Len(text) : text[k] \in Range(HexIdChars)

\* the canonical URLs of a kind of content: https://tidal.com<path><id>, with
\* or without /browse, on tidal.com or listen.tidal.com
CanonicalUrl(link, path, id) ==
    \E host \in {TidalHost, ListenHost}, browse \in {<<>>, BrowsePrefix} :
        link = Scheme \o host \o browse \o path \o id

RECURSIVE WithoutLeadingZeros(_)
WithoutLeadingZeros(text) ==
    IF Len(text) > 1 /\ text[1] = "0" THEN WithoutLeadingZeros(Tail(text)) ELSE text

\* text, a decimal without leading zeros, is at most 18446744073709551615
AtMostU64Max(text) ==
    \/ Len(text) < 20
    \/ /\ Len(text) = 20
       /\ \/ text = u64_to_string(U64MaxDigits)
          \/ \E k \in 1..20 :
                /\ DigitValue(text[k]) < U64MaxDigits[k]
                /\ \A j \in 1..(k - 1) : DigitValue(text[j]) = U64MaxDigits[j]

IsLinkError(res) == ~res.ok /\ res = LinkError(link_st.link)

\* the parts of the claim about URLs, the order of the rules and the error
LinkUrlRules ==
    LET link == link_st.link
        res == link_st.result
        track == regex_captures(link, TrackPath, Range(DecimalDigits))
        album == regex_captures(link, AlbumPath, Range(DecimalDigits))
        playlist == regex_captures(link, PlaylistPath, Range(HexIdChars))
    IN
    /\ \A id \in DecimalIds :
          /\ CanonicalUrl(link, TrackPath, id) => res = Ok(<<"track", id>>)
          /\ CanonicalUrl(link, AlbumPath, id) => res = Ok(<<"album", id>>)
    /\ \A id \in DecimalIds \cup OtherIds :
          (IsHexId(id) /\ CanonicalUrl(link, PlaylistPath, id))
          => res = Ok(<<"playlist", id>>)
    /\ (~parse_u64(link).ok /\ track.some) => res = Ok(<<"track", track.v>>)
    /\ (~parse_u64(link).ok /\ ~track.some /\ album.some)
       => res = Ok(<<"album", album.v>>)
    /\ (~parse_u64(link).ok /\ ~track.some /\ ~album.some /\ playlist.some)
       => res = Ok(<<"playlist", playlist.v>>)
    /\ (~parse_u64(link).ok /\ ~track.some /\ ~album.some /\ ~playlist.some)
       => IsLinkError(res)

\* C17 as claimed: canonical track, album and playlist URLs give the kind and
\* the id as written; a bare unsigned decimal N gives ("track", N) with N as
\* written; the rules are tried in the order bare integer, track, album,
\* playlist; anything else is an invalid-link error.
C17_BareDecimalVerbatim ==
    link_st.result # NoResult =>
        /\ LinkUrlRules
        /\ IsDecimal(link_st.link)
           => link_st.result = Ok(<<"track", link_st.link>>)

\* C17 amended: as above, but a bare unsigned decimal gives ("track", D) with
\* D the decimal without its leading zeros when its value is at most
\* 2^64 - 1, and an invalid-link error when it is larger.
C17_BareDecimalNormalised ==
    link_st.result # NoResult =>
        /\ LinkUrlRules
        /\ (IsDecimal(link_st.link) /\ AtMostU64Max(WithoutLeadingZeros(link_st.link)))
           => link_st.result = Ok(<<"track", WithoutLeadingZeros(link_st.link)>>)
        /\ (IsDecimal(link_st.link) /\ ~AtMostU64Max(WithoutLeadingZeros(link_st.link)))
           => IsLinkError(link_st.result)

C17_Witness ==
    /\ link_st.link = <<"0", "0", "7">>
    /\ link_st.result = Ok(<<"track", <<"7">>>>)

----------------------------------------------------------------------------
(* HTTP calls and the request timeout                                       *)

\* C18: the configured request timeout is on every HTTP call the library
\* makes, token-endpoint calls and segment fetches included, so every call
\* that was sent eventually returns, whether or not the remote answers.
C18_EveryCallReturns ==
    [](net.pc = "in_flight"
        => /\ net.timer = Some(net.config_timeout)
           /\ <>(net.pc = "returned"))

----------------------------------------------------------------------------
(* MPD projection                                                           *)

NoSyntaxError == \A k \in 1..Len(mpd_st.events) : mpd_st.events[k].ev # "Err"

\* the SegmentTemplate elements of the document
TemplateIndexes ==
    { k \in 1..Len(mpd_st.events) :
        /\ mpd_st.events[k].ev \in {"Start", "Empty"}
        /\ mpd_st.events[k].name = "SegmentTemplate" }

\* events[k] stands between <SegmentTimeline> and </SegmentTimeline>
InsideTimeline(k) ==
    \E j \in 1..(k - 1) :
        /\ mpd_st.events[j] = StartEl("SegmentTimeline", NoAttrs)
        /\ \A i \in (j + 1)..(k - 1) : mpd_st.events[i] # EndEl("SegmentTimeline")

\* the <S> elements inside a SegmentTimeline, in document order
TimelineRepeats ==
    LET at == { k \in 1..Len(mpd_st.events) :
                  mpd_st.events[k].name = "S" /\ InsideTimeline(k) }
    IN { mpd_st.events[k].attrs.r : k \in at }

RECURSIVE SegmentsUpTo(_)
\* (r + 1) summed over the <S> elements inside a SegmentTimeline among
\* events[1..k], r counting as 0 when absent
SegmentsUpTo(k) ==
    IF k = 0 THEN 0
    ELSE SegmentsUpTo(k - 1) +
         (IF mpd_st.events[k].name = "S" /\ InsideTimeline(k)
          THEN (IF mpd_st.events[k].attrs.r.some
                THEN mpd_st.events[k].attrs.r.v.value.lo ELSE 0) + 1
          ELSE 0)

\* C19: for an MPD with one SegmentTemplate that has initialization I and
\* media M, and <S> elements in its SegmentTimeline whose r is absent or
\* parses as u32, parse_mpd returns [I, M with $Number$ = 1, ..., M with
\* $Number$ = N], N the sum of the (r + 1); an <S> outside a SegmentTimeline
\* adds nothing.  With an r of u32::MAX, N is at least 2^32.
C19_ProjectedUrls ==
    ( /\ mpd_st.pc = "done"
      /\ NoSyntaxError
      /\ Cardinality(TemplateIndexes) = 1
      /\ \A t \in TemplateIndexes :
            /\ mpd_st.events[t].attrs.initialization.some
            /\ mpd_st.events[t].attrs.media.some
      /\ \A r \in TimelineRepeats : r.some => r.v.parses )
    => /\ mpd_st.result.ok
       /\ LET t == CHOOSE t \in TemplateIndexes : TRUE
              I == mpd_st.events[t].attrs.initialization.v
              M == mpd_st.events[t].attrs.media.v
          IN IF Some(Parses(U32Max)) \in TimelineRepeats
             THEN Len(mpd_st.result.val.urls) > HalfMax
             ELSE mpd_st.result.val.urls =
                    <<I>> \o [n \in 1..SegmentsUpTo(Len(mpd_st.events)) |->
                                [k \in 1..Len(M) |->
                                    IF M[k] = NumberVar THEN Num(n) ELSE M[k]]]

\* C20: parse_mpd fails with the Manifest error "No URLs found in DASH
\* manifest" exactly when the document was read to its end and gave neither
\* an initialization URL nor a media segment URL, in particular whenever the
\* document has no SegmentTemplate; a DashManifest returned has URLs.
C20_NoUrlsIsManifestError ==
    mpd_st.pc = "done" =>
        /\ mpd_st.result.ok => mpd_st.result.val.urls # <<>>
        /\ mpd_st.result = Err("Manifest", "No URLs found in DASH manifest")
           <=> /\ mpd_st.pos > Len(mpd_st.events)
               /\ ~mpd_st.initialization_url.some
               /\ \/ ~mpd_st.media_template.some
                  \/ \A k \in 1..Len(mpd_st.segment_durations) :
                        mpd_st.segment_durations[k] = U32(0)
        /\ (NoSyntaxError /\ TemplateIndexes = {})
           => mpd_st.result = Err("Manifest", "No URLs found in DASH manifest")

\* the media segment URLs a template can give
IsMediaUrl(url, media) ==
    \E n \in 1..Len(mpd_st.result.val.urls) : url = replace_number(media, n)

\* C22: in every DashManifest parse_mpd returns, urls[0] is the
\* initialization URL of the SegmentTemplate and every later entry is a media
\* segment URL, also for an MPD whose SegmentTemplate has media and timeline
\* segments but no initialization attribute.
C22_InitializationFirst ==
    (mpd_st.pc = "done" /\ mpd_st.result.ok) =>
        \E t \in TemplateIndexes :
            LET a == mpd_st.events[t].attrs
                urls == mpd_st.result.val.urls
            IN /\ a.initialization.some
               /\ urls[1] = a.initialization.v
               /\ \A k \in 2..Len(urls) :
                     a.media.some /\ IsMediaUrl(urls[k], a.media.v)

----------------------------------------------------------------------------
(* Key unwrapping, checked under SpecStream                                 *)

\* parse_stream_info reached decrypt_key_id with a key_id that is base64
UnwrapCalled ==
    /\ psi_result # NoResult
    /\ playback_info.v.manifest_mime_type = MimeBts
    /\ playback_info.v.manifest.fmt = "bts"
    /\ playback_info.v.manifest.encryption_type = "OLD_AES"
    /\ playback_info.v.manifest.key_id.some
    /\ playback_info.v.manifest.key_id.v.b64

\* C23: for a base64-valid key_id, whatever the length of the decoded blob,
\* decrypt_key_id returns a DecryptionKey or an Encryption-kind error; a blob
\* shorter than 16 bytes, a ciphertext that is not a whole number of 16-byte
\* blocks and a plaintext shorter than 24 bytes are each an Encryption-kind
\* error, and the call never aborts.
C23_UnwrapErrorsAreEncryptionKind ==
    UnwrapCalled =>
        LET key_id == playback_info.v.manifest.key_id.v
            short == \/ key_id.len < IvLen
                     \/ (key_id.len - IvLen) % BlockLen # 0
                     \/ key_id.len - IvLen < NonceEnd
        IN  /\ psi_result.ok \/ psi_result.kind = "Encryption"
            /\ short => (~psi_result.ok /\ psi_result.kind = "Encryption")
            /\ psi_result.ok =>
                  psi_result.val.encryption = Some(StreamDecryptor_new([key |-> key_id.key]))

----------------------------------------------------------------------------
(* Termination of the token polling, checked under Spec                     *)

\* a poll answer that ends poll_for_token, in the words of C26
IsTerminating(r) ==
    \/ ~r.transport
    \/ r.status \in 200..299
    \/ r.body.json = "error"
       /\ r.body.error \notin {"authorization_pending", "slow_down"}

\* C26: poll_for_token returns only on a 2xx answer, on a non-2xx answer with
\* an error code other than authorization_pending and slow_down, or on a
\* transport failure; every other answer, a non-2xx answer that is no error
\* object included, is followed by another poll after `interval`; the client
\* counts neither polls nor time, so the polling goes on for as long as the
\* service sends no terminating answer.
C26_PollingEndsOnlyOnTerminatingAnswer ==
    /\ \A k \in 1..Len(poll_responses) :
          IF IsTerminating(poll_responses[k])
          THEN k = Len(poll_responses) /\ Returned(poll_result)
          ELSE /\ k = Len(poll_responses) =>
                     /\ ~Returned(poll_result)
                     /\ pc \in {"poll_slow_down", "poll_sleep", "poll_post"}
               /\ k < Len(poll_responses) =>
                     poll_times[k + 1] =
                        poll_times[k] + interval +
                        (IF IsSlowDown(poll_responses[k]) THEN SlowDownDelay ELSE 0)
    /\ Returned(poll_result) =>
          /\ poll_responses # <<>>
          /\ IsTerminating(poll_responses[Len(poll_responses)])

\* two non-2xx answers that are no error objects, and the polling goes on
C26_Witness ==
    /\ Len(poll_responses) = MaxPolls - 1
    /\ \A k \in 1..Len(poll_responses) :
          poll_responses[k] = HttpResponse(400, GarbageBody)
    /\ pc = "poll_post"
    /\ ~Returned(poll_result)
    /\ clock = poll_start + MaxPolls * interval

----------------------------------------------------------------------------
(* The decryptor of a StreamInfo, checked under SpecStream                  *)

\* the segments the running / last get_stream_bytes call passed through the
\* decryptor: the ones fetched, without the one whose fetch failed
PassedUrls ==
    IF gsb.pc = "idle" /\ gsb.calls > 0 /\ ~gsb.result.ok
    THEN SubSeq(gsb.fetched, 1, Len(gsb.fetched) - 1)
    ELSE gsb.fetched

\* keystream position of the decryptor of the StreamInfo
Position == stream_info.v.encryption.v.pos

DecryptorState ==
    (stream_info.some /\ stream_info.v.encryption.some) =>
        /\ gsb.calls = 0 => Position = 0
        /\ gsb.calls > 0 =>
              /\ gsb.encryption_at_call.some
              /\ gsb.calls = 1 => gsb.encryption_at_call.v.pos = 0
              /\ Position = gsb.encryption_at_call.v.pos + SumLen(PassedUrls)
              /\ (gsb.pc = "idle" /\ ~gsb.result.ok) =>
                    /\ gsb.result = Err("Network", "")
                    /\ PassedUrls =
                         SubSeq(stream_info.v.urls, 1, Len(gsb.fetched) - 1)
              /\ (gsb.calls = 2 /\ gsb.previous.ok) =>
                    gsb.encryption_at_call.v.pos = SumLen(stream_info.v.urls)
              /\ (gsb.calls > 1 /\ gsb.previous.ok) =>
                    gsb.encryption_at_call.v.pos >= SumLen(stream_info.v.urls)
              /\ (gsb.calls > 1 /\ Succeeded) =>
                    /\ gsb.result.val =
                         WholeDecrypt(gsb.encryption_at_call.v.key,
                                      gsb.encryption_at_call.v.pos,
                                      ConcatBodies(stream_info.v.urls))
                    /\ (gsb.previous.ok /\ gsb.previous.val # <<>>) =>
                          gsb.result.val # gsb.previous.val

DecryptorStep ==
    (stream_info.some /\ stream_info.v.encryption.some) =>
        /\ stream_info'.some
        /\ stream_info'.v.encryption.some
        /\ stream_info'.v.encryption.v.key = stream_info.v.encryption.v.key
        /\ stream_info'.v.encryption.v.pos >= Position
        /\ gsb'.calls = gsb.calls + 1 =>
              gsb'.encryption_at_call = stream_info.v.encryption

----------------------------------------------------------------------------
(* Paging of the album credits, checked under SpecCredits                   *)

RECURSIVE CollectedAfter(_)
\* the items of the first k responses, in order
CollectedAfter(k) ==
    IF k = 0 THEN <<>>
    ELSE CollectedAfter(k - 1) \o credits_st.responses[k].val.items

CreditsReturnedAfter(k) ==
    /\ k = Len(credits_st.requests)
    /\ credits_st.pc = "done"
    /\ credits_st.result = Ok(CollectedAfter(k))

\* the requests go out with limit 100 at offsets 0, 100, 200, ..., the items
\* are appended in order, and the call returns as soon as the number
\* collected reaches the total of the latest response
CreditsPaging ==
    /\ Len(credits_st.responses) = Len(credits_st.requests)
    /\ \A k \in 1..Len(credits_st.requests) :
          /\ credits_st.requests[k] =
                [limit |-> CreditsLimit, offset |-> CreditsLimit * (k - 1)]
          /\ k < Len(credits_st.requests) => credits_st.responses[k].ok
          /\ credits_st.responses[k].ok =>
                /\ Len(CollectedAfter(k)) >=
                      credits_st.responses[k].val.total_number_of_items
                   => CreditsReturnedAfter(k)
                /\ k = Len(credits_st.requests) =>
                      credits_st.all_credits = CollectedAfter(k)
          /\ ~credits_st.responses[k].ok =>
                credits_st.pc = "done" /\ credits_st.result = credits_st.responses[k]

\* C28: get_all_album_track_credits asks for pages with limit 100 at offsets
\* 0, 100, 200, ..., appends the items of each page in order and stops as
\* soon as the number collected reaches total_number_of_items of the latest
\* response; it also stops when a page comes back with no items while the
\* total reported is still larger than the number collected, so that it ends
\* after finitely many requests whatever the service answers.
C28_CreditsPagingStops ==
    /\ CreditsPaging
    /\ \A k \in 1..Len(credits_st.responses) :
          ( /\ credits_st.responses[k].ok
            /\ credits_st.responses[k].val.items = <<>>
            /\ credits_st.responses[k].val.total_number_of_items
                  > Len(CollectedAfter(k)) )
          => /\ k = Len(credits_st.requests)
             /\ credits_st.pc = "done"

----------------------------------------------------------------------------
(* The Composer tag, checked under SpecEmbed                                *)

Embedded == embed_st.pc = "done" /\ embed_st.result.ok

\* the composer credits with a contributor among the credits of the
\* ALBUM_HEADER modules of an album page
ComposerCreditsOf(page) ==
    { c \in UNION { { page[m].credits.v[k] : k \in 1..Len(page[m].credits.v) } :
                      m \in { m \in 1..Len(page) :
                                /\ page[m].module_type = "ALBUM_HEADER"
                                /\ page[m].credits.some } } :
        /\ c.credit_type \in {"Composer", "composers"}
        /\ c.contributors # <<>> }

\* C25: after embed_metadata the Composer tag holds the contributors of the
\* album's composer / composers credit whenever the ALBUM_HEADER credits have
\* such a credit with a contributor; the name of the primary artist is the
\* Composer only when there is no such credit.
C25_ComposerFromCredit ==
    (Embedded /\ embed_st.track.album /\ embed_st.page.ok) =>
        LET explicit == ComposerCreditsOf(embed_st.page.val)
            composer == embed_st.file_tag["Composer"]
        IN  /\ explicit # {} =>
                  \E c \in explicit : composer = Some(join(c.contributors, ", "))
            /\ (explicit = {} /\ primary_artist(embed_st.track).some) =>
                  composer = primary_artist(embed_st.track)

\* ---------------------------------------------------------------------
\* Lyrics

Displayed == lyrics_st.pc = "display"

LyricsOf == lyrics_st.parsed.val.v

\* C21: for lyrics sorted by time and two positions p1 <= p2 at which
\* line_index_at is defined, line_index_at(p1) <= line_index_at(p2).  The
\* two positions are those of the last two update calls, in either order.
C21_LookupMonotonic ==
    (/\ Displayed
     /\ lyrics_st.previous.called
     /\ lyrics_st.last.called
     /\ LessEq(lyrics_st.previous.position, lyrics_st.last.position)
     /\ lyrics_st.previous.current_index.some
     /\ lyrics_st.last.current_index.some)
    => lyrics_st.previous.current_index.v <= lyrics_st.last.current_index.v

\* a later position finds a later line
C21_Witness ==
    /\ Displayed
    /\ lyrics_st.previous.called
    /\ lyrics_st.last.called
    /\ LessEq(lyrics_st.previous.position, lyrics_st.last.position)
    /\ lyrics_st.previous.current_index.some
    /\ lyrics_st.last.current_index.some
    /\ lyrics_st.previous.current_index.v < lyrics_st.last.current_index.v
    /\ Len(LyricsOf.lines) = 3

\* the index of the last line whose time is at most the position
LastLineAt(lyrics, position) ==
    LET at == { k \in 1..Len(lyrics.lines) : LessEq(lyrics.lines[k].time, position) }
    IN  IF at = {} THEN None
        ELSE Some((CHOOSE k \in at : \A j \in at : j <= k) - 1)

\* C29: after each update call last_index equals line_index_at(position) of
\* that call; the call returns the text of the current line exactly when a
\* current line exists and its index differs from the index the previous
\* call recorded; it returns nothing when the index is unchanged (so for a
\* repeated position) and when the position lies before the first line.
C29_UpdateReportsChanges ==
    (Displayed /\ lyrics_st.last.called) =>
        LET call == lyrics_st.last
            recorded == IF lyrics_st.previous.called
                        THEN lyrics_st.previous.current_index ELSE None
        IN  /\ lyrics_st.last_index = LastLineAt(LyricsOf, call.position)
            /\ call.current_index = lyrics_st.last_index
            /\ call.before = recorded
            /\ call.returned.some <=>
                 (call.current_index.some /\ call.current_index # recorded)
            /\ call.returned.some =>
                 call.returned.v = LyricsOf.lines[call.current_index.v + 1].text
            /\ (lyrics_st.previous.called
                /\ lyrics_st.previous.position = call.position)
               => ~call.returned.some
            /\ ~LessEq(LyricsOf.lines[1].time, call.position)
               => ~call.returned.some

\* an update moves from one line to another and returns the new line
C29_Witness ==
    /\ Displayed
    /\ lyrics_st.previous.called
    /\ lyrics_st.previous.current_index.some
    /\ lyrics_st.last.current_index.some
    /\ lyrics_st.last.current_index # lyrics_st.previous.current_index
    /\ lyrics_st.last.returned.some

\* C30: SyncedLyrics::parse is total: for every input it returns no lyrics
\* or a SyncedLyrics value and never aborts; LRC lines without a closing
\* bracket, with an unparseable timestamp or with empty text are skipped, a
\* line that begins with ']' included.
C30_ParseIsTotal ==
    lyrics_st.pc \notin {"idle", "parse"} => lyrics_st.parsed.ok

FieldValue(chars) == StripZeros([k \in 1..Len(chars) |-> DigitValue(chars[k])])

IsField(chars) ==
    chars # <<>> /\ \A k \in 1..Len(chars) : chars[k] \in Range(DecimalDigits)

FirstAt(text, c) ==
    IF \E k \in 1..Len(text) : text[k] = c
    THEN CHOOSE k \in 1..Len(text) :
            text[k] = c /\ \A j \in 1..(k - 1) : text[j] # c
    ELSE 0

\* the entry an LRC line [mm:ss]text or [mm:ss.xx]text stands for, its time
\* mm*60 + ss + xx/100 seconds in milliseconds; None for any other line
LrcEntry(raw) ==
    LET close == FirstAt(raw, "]")
        ts == SubSeq(raw, 2, close - 1)
        text == trim(SubSeq(raw, close + 1, Len(raw)))
        colon == FirstAt(ts, ":")
        mm == SubSeq(ts, 1, colon - 1)
        rest == SubSeq(ts, colon + 1, Len(ts))
        dot == FirstAt(rest, ".")
        ss == IF dot = 0 THEN rest ELSE SubSeq(rest, 1, dot - 1)
        xx == IF dot = 0 THEN <<"0">> ELSE SubSeq(rest, dot + 1, Len(rest))
    IN  IF /\ raw # <<>> /\ raw[1] = "[" /\ close > 0 /\ colon > 0
           /\ IsField(mm) /\ IsField(ss) /\ IsField(xx)
           /\ text # <<>>
        THEN Some(LyricLine(Plus(Plus(Times(FieldValue(mm), 60000),
                                      Times(FieldValue(ss), 1000)),
                                 Times(FieldValue(xx), 10)),
                            text))
        ELSE None

Occurrences(seq, x) == Cardinality({ k \in 1..Len(seq) : seq[k] = x })

LyricsReturned ==
    /\ lyrics_st.pc \notin {"idle", "parse"}
    /\ lyrics_st.parsed.ok
    /\ lyrics_st.parsed.val.some

\* every returned value has a non-empty line list with times in
\* non-decreasing order
LinesSorted ==
    LyricsReturned =>
        /\ LyricsOf.lines # <<>>
        /\ \A k \in 1..(Len(LyricsOf.lines) - 1) :
              LessEq(LyricsOf.lines[k].time, LyricsOf.lines[k + 1].time)

\* for LRC input every line of the form [mm:ss]text or [mm:ss.xx]text is in
\* the returned value at its time, as often as it is in the input
LrcLinesPlaced ==
    (LyricsReturned /\ lyrics_st.content.xml = <<>>) =>
        LET entries == [k \in 1..Len(lines(lyrics_st.content.text)) |->
                           LrcEntry(lines(lyrics_st.content.text)[k])]
        IN  \A k \in 1..Len(entries) :
                entries[k].some =>
                    Occurrences(LyricsOf.lines, entries[k].v)
                        = Occurrences(entries, entries[k])

\* C24: every SyncedLyrics value parse returns has a non-empty line list
\* with times in non-decreasing order, and for LRC input each line with a
\* timestamp [mm:ss] or [mm:ss.xx] and non-empty text appears exactly once,
\* at time mm*60 + ss + xx/100 seconds, whatever the order of the lines.
C24_ParsedLinesSortedAndPlaced == LinesSorted /\ LrcLinesPlaced

====
